---------------------------- MODULE Spec2Model ----------------------------
(***************************************************************************)
(* Model of the trade lifecycle manager and reconciliation engine of       *)
(* sentinel-alpha (src/live_trading_bot.py) with its guards, calculator    *)
(* and exchange adapter.                                                   *)
(*                                                                         *)
(* Units.  Prices are integers in cents (0.01 USD), the calculator's stop   *)
(* and target in 1e-4 USD, equity and notional in USD, quantities in        *)
(* thousandths of a contract, risk in tenths of a percent, confidence in    *)
(* percent, the volatility estimate (ATR) in 1e-5 USD.  Arithmetic is exact *)
(* rational arithmetic; Python's round() is round-half-to-even.             *)
(*                                                                         *)
(* Time.  Every timestamp of the program (entry_time, last_trade_time,     *)
(* last_trade_ts) is kept as the time elapsed since it was taken, at the   *)
(* representative points 0 (taken in this loop iteration), TickAge (one    *)
(* sleep later: more than 3 s, less than 300 s), GraceAge (more than       *)
(* 300 s) and DayAge (more than 24 h).  A sleep advances all of them.      *)
(***************************************************************************)
EXTENDS Integers, Sequences, FiniteSets, TLC

VARIABLES
    \* ---- SentinelLiveTradingBot
    positions,        \* self.positions: symbol -> signed size
    active_trades,    \* self.active_trades: symbol -> sequence of trade dicts
    current_equity,   \* self.current_equity
    peak_equity,      \* self.pnl_guard.peak_equity (None before the first reading)
    trading_halted,   \* self.pnl_guard.trading_halted
    last_trade_time,  \* self.last_trade_time, as elapsed time
    last_trade_ts,    \* self.execution_guard.last_trade_ts, as elapsed time
    adapter_symbol,   \* self.adapter.symbol
    last_leverage,    \* self.last_leverage: symbol -> leverage last set
    pc,               \* position in __init__ / run(): "init", "init_consolidate",
                      \* "top", "sym", "hb", "consolidate", "recon", "sleep"
    cur,              \* index in SymbolList of the symbol the for loop is at
    \* ---- the exchange
    exPos,            \* symbol -> side -> [size, avg]
    exPlans,          \* symbol -> sequence of active plan (trigger) orders
    price,            \* symbol -> last traded price
    exEquity,         \* account equity the exchange reports
    next_order_id,    \* order ids handed out so far
    faults,           \* handler runs in which the exchange failed a request
    moves,            \* market moves so far
    \* ---- observation of the last handler that ran
    last,             \* [op, sym, stage, calls, answered]: what the last handler did
    admitted          \* the risk_pct each entry order was admitted with, by order id

botVars == <<positions, active_trades, current_equity, peak_equity, trading_halted,
             last_trade_time, last_trade_ts, adapter_symbol, last_leverage, pc, cur>>
exVars == <<exPos, exPlans, price, exEquity, next_order_id>>
envVars == <<faults, moves>>
vars == <<botVars, exVars, envVars, last, admitted>>

-----------------------------------------------------------------------------
(* Bounds of the model *)

MaxEntries == 2      \* entry orders the exchange accepts in one run
MaxPlans == 3        \* plan orders the exchange keeps per symbol
MaxFaults == 1       \* handler runs in which the exchange fails a request
MaxMoves == 2        \* market moves (price or equity) in one run

(* Program constants *)

None == -1                  \* Python's None in a numeric field
TickAge == 10               \* time.sleep(10) at the end of a loop iteration
GraceAge == 301             \* just past the 300 s grace / cooldown
DayAge == 86401             \* just past 24 hours
GraceSeconds == 300         \* cleanup_inactive_trades: 5 minutes grace
CooldownSeconds == 300      \* cooldown_seconds, and the 300 s gate of run()
DaySeconds == 86400         \* 24 h position timeout of can_open_trade
MaxNotionalUsd == 200       \* self.max_notional_usd = 200
PortfolioRiskCap == 30      \* self.portfolio_risk_cap = 0.03
MinConfidence == 60         \* min_confidence = 0.60
MaxDrawdownPermille == 20   \* max_drawdown_pct = 0.02
StartEquity == 1000         \* self.current_equity = 1000.0
MinRrRatio == 12            \* min_rr_ratio = 1.2, in tenths
StartLeverage == 5          \* leverage: int = 5
MaxLeverage == 20           \* WeexExecutionAdapter.MAX_LEVERAGE
MaxRetries == 3             \* AILogAdapter.MAX_RETRIES
RetryDelay == 2             \* AILogAdapter.RETRY_DELAY, seconds

\* self.symbols: the bot is run on one pair
SymbolList == <<"btc">>
Symbols == {SymbolList[i] : i \in 1..Len(SymbolList)}
Sides == {"LONG", "SHORT"}

\* WeexExecutionAdapter.get_symbol_rules: the default fallbacks (btc, eth, any
\* other pair).  Quantities in thousandths, price_step in cents; the 0.0001 USD
\* step of the other pairs is below a cent and is written 0: no price of such a
\* pair is rounded here.
symbol_rules(sym) ==
    IF sym = "btc" THEN [min_qty |-> 1, qty_step |-> 1, price_step |-> 10]
    ELSE IF sym = "eth" THEN [min_qty |-> 10, qty_step |-> 10, price_step |-> 1]
    ELSE [min_qty |-> 1000, qty_step |-> 1000, price_step |-> 0]

-----------------------------------------------------------------------------
(* Arithmetic helpers *)

Abs(x) == IF x < 0 THEN -x ELSE x
Max(a, b) == IF a >= b THEN a ELSE b
Min(a, b) == IF a <= b THEN a ELSE b

\* Python round(n / d) for n >= 0, d > 0: nearest integer, ties to even
RoundHalfEven(n, d) ==
    LET q == n \div d
        r == n % d
    IN  IF 2 * r < d THEN q
        ELSE IF 2 * r > d THEN q + 1
        ELSE IF q % 2 = 0 THEN q ELSE q + 1

\* dict.get(key, default)
Get(t, key, default) == IF key \in DOMAIN t THEN t[key] ELSE default

\* SentinelLiveTradingBot.round_price_to_step for the value num/den cents
round_price_to_step(num, den, price_step) ==
    LET rounded == RoundHalfEven(num, den * price_step) * price_step
    IN  IF price_step >= 100 THEN (rounded \div 100) * 100 ELSE rounded

\* round_size_to_rules without the early return of a size that is not positive
round_size_no_zero(sym, num, den) ==
    LET rules == symbol_rules(sym)
        steps == IF num < rules.min_qty * den
                 THEN Max(1, rules.min_qty \div rules.qty_step)
                 ELSE Max(1, num \div (den * rules.qty_step))
    IN  steps * rules.qty_step

\* SentinelLiveTradingBot.round_size_to_rules for the raw size num/den
round_size_to_rules(sym, num, den) ==
    LET rules == symbol_rules(sym)
        min_qty == rules.min_qty
        step_size == IF rules.qty_step <= 0
                     THEN (IF min_qty > 0 THEN min_qty ELSE 1000)
                     ELSE rules.qty_step
        below == num < min_qty * den
        steps == IF below THEN Max(1, min_qty \div step_size)
                 ELSE Max(1, num \div (den * step_size))
    IN  IF num <= 0 THEN 0 ELSE steps * step_size

-----------------------------------------------------------------------------
(* strategy/tpsl_calculator.py *)

\* TPSLCalculator.calculate_atr on the tick window: 0.0 when the window is
\* shorter than period + 1 (raw = None), else the rolling mean raised to the
\* floor of 1.2% of the last price.  raw in cents, result in 1e-5 USD.
calculate_atr(raw, last_price) ==
    IF raw = None THEN 0 ELSE Max(raw * 1000, last_price * 12)

\* TPSLCalculator._get_regime_multipliers, in tenths, with the bot's
\* base_sl_multiplier = base_tp_multiplier = 1.0
regime_multipliers(regime) ==
    IF regime \in {"TREND_UP", "TREND_DOWN"} THEN [sl |-> 25, tp |-> 50]
    ELSE IF regime \in {"RANGE", "MEAN_REVERSION"} THEN [sl |-> 20, tp |-> 35]
    ELSE IF regime = "VOLATILITY_COMPRESSION" THEN [sl |-> 18, tp |-> 30]
    ELSE IF regime \in {"HIGH_VOLATILITY", "VOLATILE"} THEN [sl |-> 20, tp |-> 35]
    ELSE [sl |-> 10, tp |-> 20]

\* A calculator that leaves a target below the minimum risk-reward as it is
calculate_tp_sl_unwidened(min_rr_ratio, entry_price, signal, confidence, regime, volatility_atr) ==
    IF \/ signal \notin {"LONG", "SHORT"}
       \/ confidence < 0 \/ confidence > 100
       \/ entry_price <= 0 \/ volatility_atr <= 0
    THEN [raised |-> TRUE]
    ELSE
    LET effective_atr == Max(volatility_atr, entry_price * 12)
        m == regime_multipliers(regime)
        sgn == IF signal = "LONG" THEN 1 ELSE -1
    IN  [raised |-> FALSE,
         take_profit |-> entry_price * 100
             + sgn * RoundHalfEven(effective_atr * (m.tp \div 5) * (200 + confidence),
                                   5000),
         stop_loss |-> entry_price * 100 - sgn * RoundHalfEven(effective_atr * m.sl, 100),
         rr_num |-> (m.tp \div 5) * (200 + confidence),
         rr_den |-> 50 * m.sl]

\* calculate_tp_sl without the checks of the signal, the price and the volatility
calculate_tp_sl_unchecked(min_rr_ratio, entry_price, signal, confidence, regime, volatility_atr) ==
    IF confidence < 0 \/ confidence > 100
    THEN [raised |-> TRUE]
    ELSE
    LET effective_atr == Max(volatility_atr, entry_price * 12)
        m == regime_multipliers(regime)
        sl_distance == effective_atr * m.sl                 \* 1e-6 USD
        \* tp_distance = effective_atr * tp_mult * (0.8 + 0.4 * confidence)
        tp_num == effective_atr * (m.tp \div 5) * (200 + confidence)
        tp_den == 50                                         \* 1e-6 USD
        low_rr == (m.tp \div 5) * (200 + confidence) * 10 < min_rr_ratio * 50 * m.sl
        tp_num2 == IF low_rr THEN sl_distance * min_rr_ratio ELSE tp_num
        tp_den2 == IF low_rr THEN 10 ELSE tp_den
        sl4 == RoundHalfEven(sl_distance, 100)
        tp4 == RoundHalfEven(tp_num2, tp_den2 * 100)
        sgn == IF signal = "LONG" THEN 1 ELSE -1
    IN  [raised |-> FALSE,
         take_profit |-> entry_price * 100 + sgn * tp4,
         stop_loss |-> entry_price * 100 - sgn * sl4,
         rr_num |-> IF low_rr THEN min_rr_ratio ELSE (m.tp \div 5) * (200 + confidence),
         rr_den |-> IF low_rr THEN 10 ELSE 50 * m.sl]

\* calculate_tp_sl without the floor on the volatility
calculate_tp_sl_unfloored(min_rr_ratio, entry_price, signal, confidence, regime, volatility_atr) ==
    IF \/ signal \notin {"LONG", "SHORT"}
       \/ confidence < 0 \/ confidence > 100
       \/ entry_price <= 0 \/ volatility_atr <= 0
    THEN [raised |-> TRUE]
    ELSE
    LET effective_atr == volatility_atr
        m == regime_multipliers(regime)
        sl_distance == effective_atr * m.sl                 \* 1e-6 USD
        \* tp_distance = effective_atr * tp_mult * (0.8 + 0.4 * confidence)
        tp_num == effective_atr * (m.tp \div 5) * (200 + confidence)
        tp_den == 50                                         \* 1e-6 USD
        low_rr == (m.tp \div 5) * (200 + confidence) * 10 < min_rr_ratio * 50 * m.sl
        tp_num2 == IF low_rr THEN sl_distance * min_rr_ratio ELSE tp_num
        tp_den2 == IF low_rr THEN 10 ELSE tp_den
        sl4 == RoundHalfEven(sl_distance, 100)
        tp4 == RoundHalfEven(tp_num2, tp_den2 * 100)
        sgn == IF signal = "LONG" THEN 1 ELSE -1
    IN  [raised |-> FALSE,
         take_profit |-> entry_price * 100 + sgn * tp4,
         stop_loss |-> entry_price * 100 - sgn * sl4,
         rr_num |-> IF low_rr THEN min_rr_ratio ELSE (m.tp \div 5) * (200 + confidence),
         rr_den |-> IF low_rr THEN 10 ELSE 50 * m.sl]

\* TPSLCalculator.calculate_tp_sl of a calculator built with min_rr_ratio (in
\* tenths): raised = TRUE stands for the ValueError.  entry_price in cents,
\* volatility_atr in 1e-5 USD; stop_loss and take_profit in 1e-4 USD
\* (round(x, 4)); risk_reward as the fraction rr_num / rr_den.
calculate_tp_sl_with(min_rr_ratio, entry_price, signal, confidence, regime, volatility_atr) ==
    IF \/ signal \notin {"LONG", "SHORT"}
       \/ confidence < 0 \/ confidence > 100
       \/ entry_price <= 0 \/ volatility_atr <= 0
    THEN [raised |-> TRUE]
    ELSE
    LET effective_atr == Max(volatility_atr, entry_price * 12)
        m == regime_multipliers(regime)
        sl_distance == effective_atr * m.sl                 \* 1e-6 USD
        \* tp_distance = effective_atr * tp_mult * (0.8 + 0.4 * confidence)
        tp_num == effective_atr * (m.tp \div 5) * (200 + confidence)
        tp_den == 50                                         \* 1e-6 USD
        low_rr == (m.tp \div 5) * (200 + confidence) * 10 < min_rr_ratio * 50 * m.sl
        tp_num2 == IF low_rr THEN sl_distance * min_rr_ratio ELSE tp_num
        tp_den2 == IF low_rr THEN 10 ELSE tp_den
        sl4 == RoundHalfEven(sl_distance, 100)
        tp4 == RoundHalfEven(tp_num2, tp_den2 * 100)
        sgn == IF signal = "LONG" THEN 1 ELSE -1
    IN  [raised |-> FALSE,
         take_profit |-> entry_price * 100 + sgn * tp4,
         stop_loss |-> entry_price * 100 - sgn * sl4,
         rr_num |-> IF low_rr THEN min_rr_ratio ELSE (m.tp \div 5) * (200 + confidence),
         rr_den |-> IF low_rr THEN 10 ELSE 50 * m.sl]

\* The bot's calculator: TPSLCalculator(min_rr_ratio=1.2, ...)
calculate_tp_sl(entry_price, signal, confidence, regime, volatility_atr) ==
    calculate_tp_sl_with(MinRrRatio, entry_price, signal, confidence, regime,
                         volatility_atr)

\* TPSLCalculator.validate_tp_sl (prices in 1e-4 USD, min_rr_ratio = 1.2)
validate_tp_sl(entry4, take_profit, stop_loss, signal) ==
    LET risk == IF signal = "LONG" THEN entry4 - stop_loss ELSE stop_loss - entry4
        reward == IF signal = "LONG" THEN take_profit - entry4 ELSE entry4 - take_profit
    IN  /\ take_profit > 0 /\ stop_loss > 0
        /\ risk > 0 /\ reward > 0
        /\ reward * 10 >= MinRrRatio * risk

\* A wrapper that hands out the two levels exchanged
calculate_dynamic_tpsl_swapped(entry_price, direction, volatility_atr, regime, confidence) ==
    LET r == calculate_tp_sl(entry_price, direction, confidence, regime, volatility_atr)
    IN  IF r.raised THEN [valid |-> FALSE]
        ELSE [valid |-> validate_tp_sl(entry_price * 100, r.take_profit, r.stop_loss, direction),
              take_profit |-> r.stop_loss,
              stop_loss |-> r.take_profit,
              rr_num |-> r.rr_num,
              rr_den |-> r.rr_den]

\* TPSLCalculator.calculate_dynamic_tpsl
calculate_dynamic_tpsl(entry_price, direction, volatility_atr, regime, confidence) ==
    LET r == calculate_tp_sl(entry_price, direction, confidence, regime, volatility_atr)
    IN  IF r.raised THEN [valid |-> FALSE]
        ELSE [valid |-> validate_tp_sl(entry_price * 100, r.take_profit, r.stop_loss, direction),
              take_profit |-> r.take_profit,
              stop_loss |-> r.stop_loss,
              rr_num |-> r.rr_num,
              rr_den |-> r.rr_den]

-----------------------------------------------------------------------------
(* Sizing, classification and the guards *)

\* SentinelLiveTradingBot.determine_trade_class
determine_trade_class(regime, confidence) ==
    IF regime \in {"TREND_UP", "TREND_DOWN"} /\ confidence >= 75 THEN "HIGH_CONF_TREND"
    ELSE IF regime \in {"TREND_UP", "TREND_DOWN"} THEN "TREND"
    ELSE "SCALP"

\* SentinelLiveTradingBot.get_risk_pct, in tenths of a percent
get_risk_pct(regime, confidence) ==
    IF regime = "VOLATILITY_COMPRESSION" THEN 10
    ELSE IF regime \in {"TREND_UP", "TREND_DOWN"}
         THEN (IF confidence >= 66 THEN 20 ELSE 15)
    ELSE 10

\* The raw size of calculate_position_size, after the notional cap and before
\* the rounding: the fraction num/den in thousandths of a contract (stop
\* distance positive)
raw_size(equity, p, stop_loss, risk_pct) ==
    LET stop_distance == Abs(p * 100 - stop_loss)
        capped == p * equity * risk_pct > 10 * MaxNotionalUsd * stop_distance
    IN  IF capped THEN [num |-> MaxNotionalUsd * 100000, den |-> p]
        ELSE [num |-> equity * risk_pct * 10000, den |-> stop_distance]

\* SentinelLiveTradingBot.calculate_position_size; price in cents, stop_loss in
\* 1e-4 USD, equity in USD; the result in thousandths of a contract
calculate_position_size(sym, equity, p, stop_loss, risk_pct) ==
    LET stop_distance == Abs(p * 100 - stop_loss)
        raw == raw_size(equity, p, stop_loss, risk_pct)
        final_size == round_size_to_rules(sym, raw.num, raw.den)
    IN  IF p <= 0 \/ stop_loss <= 0 \/ stop_distance <= 0 THEN 0
        ELSE IF final_size * p > MaxNotionalUsd * 100000
             THEN round_size_to_rules(sym, MaxNotionalUsd * 100000, p)
             ELSE final_size

\* ExecutionGuard.can_trade, with the elapsed time since the last registered trade
guard_can_trade(elapsed, size, p) ==
    /\ ~(elapsed < CooldownSeconds)
    /\ ~(size * p > MaxNotionalUsd * 100000)

\* A guard with one timestamp for all symbols
register_trade_global(ts, sym) == [s \in DOMAIN ts |-> 0]

\* ExecutionGuard.register_trade: the timestamp of the symbol is now; ts holds
\* the elapsed time since each symbol's last registered trade
register_trade(ts, sym) == [ts EXCEPT ![sym] = 0]

\* An update that recomputes the halt from the current drawdown alone
pnl_update_recovering(peak, halted, equity) ==
    IF peak = None THEN [peak |-> equity, halted |-> halted, raised |-> FALSE]
    ELSE LET np == Max(peak, equity)
         IN  [peak |-> np,
              halted |-> np > 0 /\ (np - equity) * 1000 >= MaxDrawdownPermille * np,
              raised |-> np = 0]

\* PnLGuard.update: the new [peak, halted].  The drawdown is a quotient by the
\* peak: a peak of zero raises ZeroDivisionError after the peak is stored, and
\* below a negative peak the drawdown is never positive.
pnl_update(peak, halted, equity) ==
    IF peak = None THEN [peak |-> equity, halted |-> halted, raised |-> FALSE]
    ELSE LET np == Max(peak, equity)
         IN  [peak |-> np,
              halted |-> \/ halted
                         \/ np > 0 /\ (np - equity) * 1000 >= MaxDrawdownPermille * np,
              raised |-> np = 0]

\* PnLGuard.reset: peak and halt flag cleared
pnl_reset(peak, halted) == [peak |-> None, halted |-> FALSE]

\* An unhalt that forgets the peak as reset does
pnl_force_unhalt_clearing(peak, halted) == [peak |-> None, halted |-> FALSE]

\* PnLGuard.force_unhalt: the halt flag cleared, the peak kept
pnl_force_unhalt(peak, halted) == [peak |-> peak, halted |-> FALSE]

-----------------------------------------------------------------------------
(* The exchange, as the adapter's calls see it.  Every call is answered     *)
(* "ok", "rejected" (an error body: _post / _get return a dict with 'error') *)
(* or "raises" (a timeout or a malformed body raises out of the adapter).    *)

Outcomes == {"ok", "rejected", "raises"}
NoPosition == [size |-> 0, avg |-> 0]
Flat == [LONG |-> NoPosition, SHORT |-> NoPosition]

\* A plan order as /capi/v2/order/placeTpSlOrder stores it
PlanOrder(plan_type, trigger_price, size, position_side) ==
    [planType |-> plan_type, triggerPrice |-> trigger_price, size |-> size,
     side |-> position_side, status |-> "UNTRIGGERED",
     type |-> IF position_side = "LONG" THEN "CLOSE_LONG" ELSE "CLOSE_SHORT"]

\* WeexExecutionAdapter.place_tp_sl_order answered with `outcome`: the order is
\* kept when the exchange accepts it; it is sent for self.symbol
ExAccepts(plans, outcome) == outcome = "ok" /\ Len(plans) < MaxPlans

place_tp_sl_order(plans, sym, order, outcome) ==
    IF ExAccepts(plans[sym], outcome)
    THEN [plans EXCEPT ![sym] = Append(@, order)]
    ELSE plans

\* _tp_sl_success taking every response for a success
tp_sl_success_any(plans, outcome) == TRUE

\* WeexExecutionAdapter._tp_sl_success on the response to a placement
tp_sl_success(plans, outcome) == ExAccepts(plans, outcome)

\* /capi/v2/order/closePositions for one symbol: both sides are closed and the
\* plan orders of the closed positions go with them
close_all_positions(pos, sym, outcome) ==
    IF outcome = "ok" THEN [pos EXCEPT ![sym] = Flat] ELSE pos

plans_after_close(plans, sym, outcome) ==
    IF outcome = "ok" THEN [plans EXCEPT ![sym] = <<>>] ELSE plans

\* cancel_all_plan_orders as an adapter that had the method would answer it:
\* every plan order of the symbol is cancelled
cancel_all_plan_orders_sent(plans, sym) ==
    [raised |-> FALSE, plans |-> [plans EXCEPT ![sym] = <<>>]]

\* WeexExecutionAdapter has no method cancel_all_plan_orders: the call raises
\* AttributeError and no request is sent
cancel_all_plan_orders(plans, sym) ==
    [raised |-> TRUE, plans |-> plans]

\* A filled entry order adds to the position of its side (hedge mode keeps a
\* LONG and a SHORT position per symbol)
fill_entry(pos, sym, direction, size, fill_price) ==
    LET old == pos[sym][direction]
        total == old.size + size
    IN  [pos EXCEPT ![sym][direction] =
            [size |-> total,
             avg |-> (old.size * old.avg + size * fill_price) \div total]]

\* The rows of /capi/v2/account/position/allPosition for one symbol: one row
\* per open side, the LONG row before the SHORT row
position_rows(pos, sym) ==
    LET row(side) == [symbol |-> sym, side |-> side,
                      holdAmount |-> pos[sym][side].size,
                      avgPrice |-> pos[sym][side].avg]
    IN  (IF pos[sym]["LONG"].size > 0 THEN <<row("LONG")>> ELSE <<>>)
        \o (IF pos[sym]["SHORT"].size > 0 THEN <<row("SHORT")>> ELSE <<>>)

-----------------------------------------------------------------------------
(* Elapsed time *)

\* One sleep: a timestamp taken in this iteration is now TickAge old; `jump`
\* says how long the sleep and the blocking calls took altogether
Elapse(age, jump) ==
    IF age = None THEN None
    ELSE IF jump = "day" THEN DayAge
    ELSE IF jump = "grace" THEN Max(age, GraceAge)
    ELSE Max(age, TickAge)

ElapseTrades(trades, jump) ==
    [i \in DOMAIN trades |->
        IF "entry_time" \in DOMAIN trades[i]
        THEN [trades[i] EXCEPT !.entry_time = Elapse(@, jump)]
        ELSE trades[i]]

-----------------------------------------------------------------------------
(* SentinelLiveTradingBot: trade bookkeeping *)

\* The request records kept in last.calls
TpSlCall(sym, order, accepted) ==
    [op |-> "place_tp_sl_order", symbol |-> sym, planType |-> order.planType,
     triggerPrice |-> order.triggerPrice, size |-> order.size, side |-> order.side,
     accepted |-> accepted]
CloseCall(sym, accepted) ==
    [op |-> "close_all_positions", symbol |-> sym, planType |-> "none",
     triggerPrice |-> 0, size |-> 0, side |-> "none", accepted |-> accepted]
OrderCall(sym, direction, size, accepted) ==
    [op |-> "place_order", symbol |-> sym, planType |-> "none",
     triggerPrice |-> 0, size |-> size, side |-> direction, accepted |-> accepted]
\* A query of the account (get_account_assets, get_positions) and whether it
\* was answered with data
QueryCall(op, outcome) ==
    [op |-> op, symbol |-> "all", planType |-> "none",
     triggerPrice |-> 0, size |-> 0, side |-> "none", accepted |-> outcome = "ok"]
\* set_leverage: `size` holds the leverage sent
LeverageCall(sym, leverage, accepted) ==
    [op |-> "set_leverage", symbol |-> sym, planType |-> "none",
     triggerPrice |-> 0, size |-> leverage, side |-> "none", accepted |-> accepted]
\* The line _log_locally appends to the local log file
LocalLogCall(sym) ==
    [op |-> "log_locally", symbol |-> sym, planType |-> "none",
     triggerPrice |-> 0, size |-> 0, side |-> "none", accepted |-> TRUE]
\* The remote submission of one log: `size` holds the number of POSTs made
AiLogCall(sym, attempts, success) ==
    [op |-> "upload_ai_log", symbol |-> sym, planType |-> "none",
     triggerPrice |-> 0, size |-> attempts, side |-> "none", accepted |-> success]

\* SentinelLiveTradingBot.cleanup_inactive_trades
cleanup_inactive_trades(trades, pos) ==
    [sym \in Symbols |->
        IF /\ trades[sym] # <<>>
           /\ Abs(pos[sym]) <= 0
           /\ \A i \in DOMAIN trades[sym] :
                 ~(Get(trades[sym][i], "entry_time", DayAge) < GraceSeconds)
        THEN <<>>
        ELSE trades[sym]]

RECURSIVE SumRisk(_)
SumRisk(ts) ==
    IF ts = <<>> THEN 0 ELSE Get(Head(ts), "risk_pct", 0) + SumRisk(Tail(ts))

\* SentinelLiveTradingBot.current_portfolio_risk
current_portfolio_risk(trades) ==
    LET RECURSIVE Over(_)
        Over(i) == IF i > Len(SymbolList) THEN 0
                   ELSE SumRisk(trades[SymbolList[i]]) + Over(i + 1)
    IN  Over(1)

\* can_open_trade without the cap of the scalp class
can_open_trade_uncapped_scalp(trades, pos, sym, direction, trade_class, risk_pct, p, confidence) ==
    LET active == trades[sym]
        NotScalp(t) == Get(t, "trade_class", "None") # "SCALP"
        trend_trades == SelectSeq(active, NotScalp)
        lastt == trend_trades[Len(trend_trades)]
        last_entry == IF Get(lastt, "entry_price", None) # None THEN lastt.entry_price ELSE p
        move == IF direction = "LONG" THEN p - last_entry ELSE last_entry - p
    IN  IF current_portfolio_risk(trades) + risk_pct > PortfolioRiskCap THEN FALSE
        ELSE IF Abs(pos[sym]) > 0 /\ Len(active) = 0 THEN FALSE
        ELSE IF \E i \in DOMAIN active : Get(active[i], "entry_time", 0) > DaySeconds THEN TRUE
        ELSE IF trend_trades # <<>>
             THEN IF Len(trend_trades) >= 2 THEN FALSE
                  ELSE IF move <= 0 THEN confidence >= 70
                  ELSE TRUE
        ELSE TRUE

\* can_open_trade without the exemption of the trades older than 24 hours
can_open_trade_unexempted(trades, pos, sym, direction, trade_class, risk_pct, p, confidence) ==
    LET active == trades[sym]
        NotScalp(t) == Get(t, "trade_class", "None") # "SCALP"
        trend_trades == SelectSeq(active, NotScalp)
        lastt == trend_trades[Len(trend_trades)]
        last_entry == IF Get(lastt, "entry_price", None) # None THEN lastt.entry_price ELSE p
        move == IF direction = "LONG" THEN p - last_entry ELSE last_entry - p
    IN  IF current_portfolio_risk(trades) + risk_pct > PortfolioRiskCap THEN FALSE
        ELSE IF Abs(pos[sym]) > 0 /\ Len(active) = 0 THEN FALSE
        ELSE IF trade_class = "SCALP" /\ Len(active) > 0 THEN FALSE
        ELSE IF trend_trades # <<>>
             THEN IF Len(trend_trades) >= 2 THEN FALSE
                  ELSE IF move <= 0 THEN confidence >= 70
                  ELSE TRUE
        ELSE TRUE

\* SentinelLiveTradingBot.can_open_trade, after its cleanup_inactive_trades:
\* `trades` is the cleaned active set
can_open_trade(trades, pos, sym, direction, trade_class, risk_pct, p, confidence) ==
    LET active == trades[sym]
        NotScalp(t) == Get(t, "trade_class", "None") # "SCALP"
        trend_trades == SelectSeq(active, NotScalp)
        lastt == trend_trades[Len(trend_trades)]
        last_entry == IF Get(lastt, "entry_price", None) # None
                      THEN lastt.entry_price ELSE p
        move == IF direction = "LONG" THEN p - last_entry ELSE last_entry - p
    IN  IF current_portfolio_risk(trades) + risk_pct > PortfolioRiskCap THEN FALSE
        ELSE IF Abs(pos[sym]) > 0 /\ Len(active) = 0 THEN FALSE
        ELSE IF \E i \in DOMAIN active : Get(active[i], "entry_time", 0) > DaySeconds
             THEN TRUE
        ELSE IF trade_class = "SCALP" /\ Len(active) > 0 THEN FALSE
        ELSE IF trend_trades # <<>>
             THEN IF Len(trend_trades) >= 2 THEN FALSE
                  ELSE IF move <= 0 THEN confidence >= 70
                  ELSE TRUE
        ELSE TRUE

-----------------------------------------------------------------------------
(* SentinelLiveTradingBot.manage_active_trades *)

\* A profit lock with a single tier: any ROI of 2% or more locks 0.1%
lock_of_one_tier(direction, entry_price, current_price) ==
    LET gain == IF direction = "LONG" THEN current_price - entry_price
                ELSE entry_price - current_price
    IN  IF gain * 100 >= 2 * entry_price THEN [tier |-> 1, locked |-> 10]
        ELSE [tier |-> 0, locked |-> 0]

\* The profit-lock table of manage_active_trades: the tier of the ROI and the
\* profit it locks, in hundredths of a percent
lock_of(direction, entry_price, current_price) ==
    LET gain == IF direction = "LONG" THEN current_price - entry_price
                ELSE entry_price - current_price
    IN  IF gain * 100 >= 10 * entry_price THEN [tier |-> 3, locked |-> 300]
        ELSE IF gain * 100 >= 5 * entry_price THEN [tier |-> 2, locked |-> 100]
        ELSE IF gain * 100 >= 2 * entry_price THEN [tier |-> 1, locked |-> 10]
        ELSE [tier |-> 0, locked |-> 0]

\* trade['profit_lock_tier'] = lock_tier; trade['stop_loss'] = new_sl_rounded
with_lock(trade, tier, new_sl) ==
    [k \in DOMAIN trade \cup {"profit_lock_tier", "stop_loss"} |->
        IF k = "profit_lock_tier" THEN tier
        ELSE IF k = "stop_loss" THEN new_sl
        ELSE trade[k]]

\* Is the trade skipped by the loop's first checks?
manage_skips(trade, current_price) ==
    LET direction == Get(trade, "direction", "None")
        full_size == Get(trade, "size", 0)
        entry_price == IF Get(trade, "entry_price", None) = None THEN 0
                       ELSE trade.entry_price
    IN  \/ direction \notin {"LONG", "SHORT"}
        \/ full_size <= 0
        \/ entry_price <= 0
        \/ current_price <= 0

\* The stop order a tier upgrade of `trade` sends
lock_order(sym, trade, current_price) ==
    LET lk == lock_of(trade.direction, trade.entry_price, current_price)
        sgn == IF trade.direction = "LONG" THEN 1 ELSE -1
        new_sl == round_price_to_step(trade.entry_price * (10000 + sgn * lk.locked),
                                      10000, symbol_rules(sym).price_step)
    IN  PlanOrder("loss_plan", new_sl, round_size_to_rules(sym, trade.size, 1),
                  trade.direction)

\* upgrades without "only upgrade": any change of tier is taken
upgrades_any_change(trade, current_price) ==
    /\ ~manage_skips(trade, current_price)
    /\ lock_of(trade.direction, trade.entry_price, current_price).tier
          # Get(trade, "profit_lock_tier", 0)

\* Does the computed tier upgrade the trade?  (only upgrade, never downgrade)
upgrades(trade, current_price) ==
    /\ ~manage_skips(trade, current_price)
    /\ lock_of(trade.direction, trade.entry_price, current_price).tier
          > Get(trade, "profit_lock_tier", 0)

\* The for loop from trade i on.  st = [trades, plans, calls, raised]: the
\* symbol's trades, the exchange's plan orders, the requests sent, and whether
\* a placement raised out of the handler.  out[i] answers trade i's placement.
RECURSIVE manage_from(_, _, _, _, _)
manage_from(i, sym, current_price, st, out) ==
    IF i > Len(st.trades) \/ st.raised THEN st
    ELSE LET trade == st.trades[i]
             order == lock_order(sym, trade, current_price)
             lk == lock_of(trade.direction, trade.entry_price, current_price)
             ok == tp_sl_success(st.plans[sym], out[i])
         IN  IF ~upgrades(trade, current_price)
             THEN manage_from(i + 1, sym, current_price, st, out)
             ELSE IF out[i] = "raises"
             THEN [st EXCEPT !.raised = TRUE,
                             !.calls = Append(@, TpSlCall(sym, order, FALSE))]
             ELSE manage_from(i + 1, sym, current_price,
                    [trades |-> IF ok
                                THEN [st.trades EXCEPT
                                        ![i] = with_lock(trade, lk.tier, order.triggerPrice)]
                                ELSE st.trades,
                     plans |-> place_tp_sl_order(st.plans, sym, order, out[i]),
                     calls |-> Append(st.calls, TpSlCall(sym, order, ok)),
                     raised |-> FALSE],
                    out)

manage_active_trades(sym, current_price, trades, plans, out) ==
    manage_from(1, sym, current_price,
                [trades |-> trades, plans |-> plans, calls |-> <<>>, raised |-> FALSE],
                out)

-----------------------------------------------------------------------------
(* SentinelLiveTradingBot.execute_trade *)

\* WeexExecutionAdapter.place_order: the compliance gate before the request
\* (prices in cents, risk_reward as rr_num / rr_den)
place_order_gate(direction, size, tp, sl, entry_price, rr_num, rr_den) ==
    /\ direction \in {"LONG", "SHORT"}
    /\ size > 0
    /\ tp > 0 /\ sl > 0
    /\ ~(direction = "LONG" /\ sl >= entry_price)
    /\ ~(direction = "SHORT" /\ sl <= entry_price)
    /\ ~(rr_num < rr_den)

\* The price step execute_trade rounds with
entry_price_step(sym, p) ==
    LET p_step == symbol_rules(sym).price_step
    IN  IF p_step <= 0 \/ p_step * 5 > p THEN Max(p \div 1000, 1) ELSE p_step

\* The rounded protective levels [tp, sl] of an entry at p, after the
\* "directional validity after rounding" block
entry_levels(sym, direction, p, tpsl) ==
    LET p_step == entry_price_step(sym, p)
        tp0 == round_price_to_step(tpsl.take_profit, 100, p_step)
        sl0 == round_price_to_step(tpsl.stop_loss, 100, p_step)
    IN  IF direction = "SHORT"
        THEN [sl |-> IF sl0 <= p THEN round_price_to_step(p * 101, 100, p_step) ELSE sl0,
              tp |-> IF tp0 >= p THEN round_price_to_step(p * 98, 100, p_step) ELSE tp0]
        ELSE [sl |-> IF sl0 >= p THEN round_price_to_step(p * 99, 100, p_step) ELSE sl0,
              tp |-> IF tp0 <= p THEN round_price_to_step(p * 102, 100, p_step) ELSE tp0]

\* trade_payload of execute_trade
trade_payload(sym, order_id, direction, size, p, sl_price, primary_tp, atr) ==
    [symbol |-> sym, order_id |-> order_id, direction |-> direction, size |-> size,
     entry_price |-> p, stop_loss |-> sl_price, take_profit |-> primary_tp,
     atr |-> atr, entry_time |-> 0, sl_placed |-> FALSE, breakeven_set |-> FALSE]

\* The pre-trade cleanup: cancel the plan orders, close the position, clear the
\* metadata; any exception ends the block.  S = [active_trades, positions,
\* equity, exPos, exPlans, last_trade_ts, next_order_id, calls, stage]
pre_trade_cleanup(S, sym, close_outcome) ==
    LET cancelled == cancel_all_plan_orders(S.exPlans, sym)
    IN  IF S.active_trades[sym] = <<>> \/ cancelled.raised THEN S
        ELSE IF close_outcome = "raises"
             THEN [S EXCEPT !.exPlans = cancelled.plans,
                            !.calls = Append(@, CloseCall(sym, FALSE))]
        ELSE [S EXCEPT
                !.exPlans = plans_after_close(cancelled.plans, sym, close_outcome),
                !.exPos = close_all_positions(S.exPos, sym, close_outcome),
                !.active_trades[sym] = <<>>,
                !.calls = Append(@, CloseCall(sym, close_outcome = "ok"))]

\* SentinelLiveTradingBot.resolve_leverage
resolve_leverage(confidence, regime) ==
    IF confidence < MinConfidence THEN None
    ELSE Min(IF confidence < 75 THEN 7 ELSE IF confidence < 85 THEN 10 ELSE 15,
             MaxLeverage)

\* A retry loop with one attempt more than MAX_RETRIES
RECURSIVE retries_past_limit(_, _, _)
retries_past_limit(attempt, answers, slept) ==
    IF attempt > MaxRetries + 1
    THEN [success |-> FALSE, error |-> "Max retries exceeded",
          attempts |-> MaxRetries + 1, slept |-> slept]
    ELSE IF answers[attempt] = "ok"
    THEN [success |-> TRUE, error |-> "none", attempts |-> attempt, slept |-> slept]
    ELSE IF attempt < MaxRetries + 1
    THEN retries_past_limit(attempt + 1, answers, Append(slept, RetryDelay * attempt))
    ELSE [success |-> FALSE, error |-> answers[attempt],
          attempts |-> MaxRetries + 1, slept |-> slept]

\* AILogAdapter._submit_with_retries from attempt `attempt` on: answers[k]
\* answers the k-th POST ("rejected": an error response, "raises": an
\* exception, a timeout included); slept lists the delays slept so far
RECURSIVE retries_from(_, _, _)
retries_from(attempt, answers, slept) ==
    IF attempt > MaxRetries
    THEN [success |-> FALSE, error |-> "Max retries exceeded",
          attempts |-> MaxRetries, slept |-> slept]
    ELSE IF answers[attempt] = "ok"
    THEN [success |-> TRUE, error |-> "none", attempts |-> attempt, slept |-> slept]
    ELSE IF attempt < MaxRetries
    THEN retries_from(attempt + 1, answers, Append(slept, RetryDelay * attempt))
    ELSE [success |-> FALSE, error |-> answers[attempt],
          attempts |-> MaxRetries, slept |-> slept]

submit_with_retries(answers) == retries_from(1, answers, <<>>)

\* AILogAdapter._simulate_submission: no request is sent
simulate_submission ==
    [success |-> TRUE, error |-> "none", attempts |-> 0, slept |-> <<>>]

\* AILogAdapter.submit_log: the local line is written first, then the remote
\* submission runs; the result is returned, never raised
submit_log(dry_run, answers) ==
    IF dry_run THEN simulate_submission ELSE submit_with_retries(answers)

\* The leverage block of execute_trade: a request is sent when the leverage
\* differs from the one last set for the symbol; its answer is not read, and
\* an exception leaves execute_trade through its outer handler
apply_leverage(S, sym, applied_leverage, outcome) ==
    IF S.last_leverage[sym] = applied_leverage THEN S
    ELSE IF outcome = "raises"
         THEN [S EXCEPT !.calls = Append(@, LeverageCall(sym, applied_leverage, FALSE)),
                        !.stage = "leverage_raised"]
    ELSE [S EXCEPT !.calls = Append(@, LeverageCall(sym, applied_leverage,
                                                    outcome = "ok")),
                   !.last_leverage[sym] = applied_leverage]

\* execute_trade from the AI log on, the trade being registered: the log is
\* submitted and its result only logged, then the position and the guard's
\* timestamp are recorded.  This variant takes a failed submission as the end
\* of the entry.
record_entry_rolled_back(S, sym, direction, size, log_out) ==
    LET ai_log_result == submit_log(FALSE, [k \in 1..MaxRetries |-> log_out])
        logged == [S EXCEPT !.calls = @ \o <<LocalLogCall(sym),
                                             AiLogCall(sym, ai_log_result.attempts,
                                                       ai_log_result.success)>>]
    IN  IF ~ai_log_result.success THEN [logged EXCEPT !.stage = "entered"]
        ELSE [logged EXCEPT
                !.positions[sym] = IF direction = "LONG" THEN size ELSE -size,
                !.last_trade_ts = register_trade(@, sym),
                !.stage = "entered"]

\* execute_trade from the AI log on: whatever the submission returns, the
\* position and the guard's timestamp are recorded
record_entry(S, sym, direction, size, log_out) ==
    LET ai_log_result == submit_log(FALSE, [k \in 1..MaxRetries |-> log_out])
    IN  [S EXCEPT
           !.calls = @ \o <<LocalLogCall(sym),
                            AiLogCall(sym, ai_log_result.attempts,
                                      ai_log_result.success)>>,
           !.positions[sym] = IF direction = "LONG" THEN size ELSE -size,
           !.last_trade_ts = register_trade(@, sym),
           !.stage = "entered"]

\* execute_trade after the leverage block.  out = [order, tp, close, log]
\* answers the entry order, the target placement, the close request and the
\* POSTs of the AI log; atr_raw is the rolling mean of the tick window (None:
\* window too short).  out.interrupt is the point at which a KeyboardInterrupt
\* arrives ("none": it does not): it is no Exception, so it passes the handler
\* at the end of execute_trade and leaves the statements after it undone.
execute_entry(S, sym, direction, confidence, p, regime, risk_pct, atr_raw, out) ==
    LET atr == calculate_atr(atr_raw, p)
        tpsl == calculate_dynamic_tpsl(p, direction, atr, regime, confidence)
        size == calculate_position_size(sym, S.equity, p, tpsl.stop_loss, risk_pct)
        lv == entry_levels(sym, direction, p, tpsl)
        gate == place_order_gate(direction, size, lv.tp, lv.sl, p, tpsl.rr_num, tpsl.rr_den)
        accepted == out.order = "ok" /\ S.next_order_id < MaxEntries
        order_id == S.next_order_id + 1
        tp_order == PlanOrder("profit_plan", lv.tp, size, direction)
        tp_ok == tp_sl_success(S.exPlans[sym], out.tp)
        sent == [S EXCEPT !.calls = Append(@, OrderCall(sym, direction, size, accepted))]
        filled == [sent EXCEPT !.exPos = fill_entry(S.exPos, sym, direction, size, p),
                               !.next_order_id = order_id]
        tp_sent == [filled EXCEPT !.calls = Append(@, TpSlCall(sym, tp_order, tp_ok))]
    IN  IF atr <= 0 THEN [S EXCEPT !.stage = "atr_invalid"]
        ELSE IF ~tpsl.valid THEN [S EXCEPT !.stage = "tpsl_invalid"]
        ELSE IF size <= 0 THEN [S EXCEPT !.stage = "zero_size"]
        ELSE IF ~guard_can_trade(S.last_trade_ts[sym], size, p)
             THEN [S EXCEPT !.stage = "guard_blocked"]
        ELSE IF ~gate THEN [S EXCEPT !.stage = "gate_rejected"]
        ELSE IF out.interrupt = "before_order" THEN [S EXCEPT !.stage = "interrupted"]
        ELSE IF ~accepted THEN [sent EXCEPT !.stage = "order_failed"]
        ELSE IF out.interrupt = "after_order" THEN [filled EXCEPT !.stage = "interrupted"]
        ELSE IF out.tp = "raises" THEN [tp_sent EXCEPT !.stage = "tp_raised"]
        ELSE IF ~tp_ok
             THEN [tp_sent EXCEPT
                     !.exPos = close_all_positions(filled.exPos, sym, out.close),
                     !.exPlans = plans_after_close(S.exPlans, sym, out.close),
                     !.calls = Append(@, CloseCall(sym, out.close = "ok")),
                     !.stage = "tp_failed"]
        ELSE IF out.interrupt = "after_target"
             THEN [tp_sent EXCEPT
                     !.exPlans = place_tp_sl_order(S.exPlans, sym, tp_order, out.tp),
                     !.stage = "interrupted"]
        ELSE record_entry(
               [tp_sent EXCEPT
                  !.exPlans = place_tp_sl_order(S.exPlans, sym, tp_order, out.tp),
                  !.active_trades[sym] =
                      Append(@, trade_payload(sym, order_id, direction, size, p,
                                              lv.sl, lv.tp, atr))],
               sym, direction, size, out.log)

execute_trade(S, sym, direction, confidence, p, regime, applied_leverage, risk_pct, atr_raw, out) ==
    LET cleaned == pre_trade_cleanup(S, sym, out.cleanup_close)
        levered == apply_leverage(cleaned, sym, applied_leverage, out.leverage)
    IN  IF levered.stage = "leverage_raised" THEN levered
        ELSE execute_entry(levered, sym, direction, confidence, p, regime,
                           risk_pct, atr_raw, out)

-----------------------------------------------------------------------------
(* Account synchronisation *)

\* The rows of allPosition for all symbols the account holds
all_position_rows(pos) ==
    LET RECURSIVE Over(_)
        Over(i) == IF i > Len(SymbolList) THEN <<>>
                   ELSE position_rows(pos, SymbolList[i]) \o Over(i + 1)
    IN  Over(1)

\* for pos in data_list: self.positions[sym] = +/- holdAmount (a later row of the
\* same symbol overwrites an earlier one)
RECURSIVE apply_rows(_, _)
apply_rows(positions0, rows) ==
    IF rows = <<>> THEN positions0
    ELSE LET row == Head(rows)
             amt == IF row.side = "SHORT" THEN -row.holdAmount ELSE row.holdAmount
         IN  apply_rows([positions0 EXCEPT ![row.symbol] = amt], Tail(rows))

\* The metadata sync_state seeds for a position it finds open
legacy_trade(amt) ==
    [direction |-> IF amt > 0 THEN "LONG" ELSE "SHORT", trade_class |-> "LEGACY",
     risk_pct |-> 0, entry_price |-> None, size |-> Abs(amt), atr |-> 0,
     breakeven_set |-> TRUE, stop_loss |-> None]

\* sync_state seeds at each row, while the symbol has no metadata yet
RECURSIVE seed_rows(_, _)
seed_rows(trades, rows) ==
    IF rows = <<>> THEN trades
    ELSE LET row == Head(rows)
             amt == IF row.side = "SHORT" THEN -row.holdAmount ELSE row.holdAmount
         IN  seed_rows(IF Abs(amt) > 0 /\ trades[row.symbol] = <<>>
                       THEN [trades EXCEPT ![row.symbol] = <<legacy_trade(amt)>>]
                       ELSE trades,
                       Tail(rows))

\* The equity part of sync_state: an error body has no 'data' and keeps the
\* equity; an exception falls back to 1000
sync_equity(equity, reported, outcome) ==
    IF outcome = "ok" THEN reported
    ELSE IF outcome = "raises" THEN StartEquity ELSE equity

\* The equity part of refresh_account_state: [equity, peak, halted].  An error
\* body keeps the equity and still updates the guard; an exception skips both.
refresh_equity(equity, peak, halted, reported, outcome) ==
    LET eq == IF outcome = "ok" THEN reported ELSE equity
        g == pnl_update(peak, halted, eq)
    IN  IF outcome = "raises" THEN [equity |-> equity, peak |-> peak, halted |-> halted]
        ELSE [equity |-> eq, peak |-> g.peak, halted |-> g.halted]

\* The position part of refresh_account_state: the local positions are reset
\* and the snapshot applied; an exception leaves them as they were
refresh_positions(positions0, pos, outcome) ==
    LET zero == [sym \in Symbols |-> 0]
    IN  IF outcome = "raises" THEN positions0
        ELSE IF outcome = "rejected" THEN zero
        ELSE apply_rows(zero, all_position_rows(pos))

\* The position part of sync_state: no reset, and metadata seeded
sync_positions(positions0, pos, outcome) ==
    IF outcome = "ok" THEN apply_rows(positions0, all_position_rows(pos))
    ELSE positions0

sync_trades(trades, pos, outcome) ==
    IF outcome = "ok" THEN seed_rows(trades, all_position_rows(pos))
    ELSE trades

-----------------------------------------------------------------------------
(* SentinelLiveTradingBot.consolidate_hedged_positions *)

\* symbol_groups: the sizes of self.positions grouped by symbol
symbol_groups(positions0) == [sym \in Symbols |-> <<positions0[sym]>>]

RECURSIVE SumSeq(_)
SumSeq(q) == IF q = <<>> THEN 0 ELSE Head(q) + SumSeq(Tail(q))

\* The test that sends a symbol's group to consolidation
hedge_detected(sizes) ==
    LET net_size == SumSeq(sizes)
        total_abs == SumSeq([i \in DOMAIN sizes |-> Abs(sizes[i])])
    IN  /\ ~(Len(sizes) < 2)
        /\ \E i \in DOMAIN sizes : sizes[i] > 0
        /\ \E i \in DOMAIN sizes : sizes[i] < 0
        /\ total_abs > 0
        /\ Abs(net_size) * 100 < 5 * total_abs

\* The loop over the groups from symbol i on.  C = [positions, active_trades,
\* exPos, exPlans, calls, adapter_symbol]; `outcome` answers the close requests.
RECURSIVE consolidate_from(_, _, _)
consolidate_from(i, C, outcome) ==
    IF i > Len(SymbolList) THEN C
    ELSE LET sym == SymbolList[i]
         IN  IF ~hedge_detected(symbol_groups(C.positions)[sym])
             THEN consolidate_from(i + 1, C, outcome)
             ELSE consolidate_from(i + 1,
                    [positions |-> IF outcome = "ok"
                                   THEN [C.positions EXCEPT ![sym] = 0]
                                   ELSE C.positions,
                     active_trades |-> IF outcome = "ok"
                                       THEN [C.active_trades EXCEPT ![sym] = <<>>]
                                       ELSE C.active_trades,
                     exPos |-> close_all_positions(C.exPos, sym, outcome),
                     exPlans |-> plans_after_close(C.exPlans, sym, outcome),
                     calls |-> Append(C.calls, CloseCall(sym, outcome = "ok")),
                     adapter_symbol |-> sym],
                    outcome)

consolidate_hedged_positions(C, outcome) == consolidate_from(1, C, outcome)

-----------------------------------------------------------------------------
(* SentinelLiveTradingBot.check_and_fix_plans *)

\* active_pos_map: per symbol the last row with a nonzero size (<<>> if none)
active_pos_map(pos) ==
    [sym \in Symbols |->
        LET rows == position_rows(pos, sym)
        IN  IF rows = <<>> THEN <<>>
            ELSE <<[size |-> rows[Len(rows)].holdAmount,
                    side |-> rows[Len(rows)].side,
                    entry |-> rows[Len(rows)].avgPrice]>>]

\* The classification of one plan order against the position
plan_is_live(p) == p.status \in {"active", "new", "UNTRIGGERED", "NEW"}

\* is_sl without the explicit type check: every order is classified by its
\* trigger price
is_sl_by_trigger(p, pos_data) ==
    /\ plan_is_live(p)
    /\ p.type \in {"CLOSE_LONG", "CLOSE_SHORT"}
    /\ \/ pos_data.side = "LONG" /\ p.triggerPrice < pos_data.entry
       \/ pos_data.side = "SHORT" /\ p.triggerPrice > pos_data.entry

is_sl(p, pos_data) ==
    /\ plan_is_live(p)
    /\ \/ p.planType = "loss_plan"
       \/ /\ p.planType # "profit_plan"
          /\ p.type \in {"CLOSE_LONG", "CLOSE_SHORT"}
          /\ \/ pos_data.side = "LONG" /\ p.triggerPrice < pos_data.entry
             \/ pos_data.side = "SHORT" /\ p.triggerPrice > pos_data.entry

is_tp(p, pos_data) ==
    /\ plan_is_live(p)
    /\ p.planType # "loss_plan"
    /\ \/ p.planType = "profit_plan"
       \/ /\ p.type \in {"CLOSE_LONG", "CLOSE_SHORT"}
          /\ \/ pos_data.side = "LONG" /\ p.triggerPrice > pos_data.entry
             \/ pos_data.side = "SHORT" /\ p.triggerPrice < pos_data.entry

\* entry = pos_data['entry'], or the current price when it is 0
recon_entry(pos_data, current_price) ==
    IF pos_data.entry = 0 /\ current_price > 0 THEN current_price ELSE pos_data.entry

\* The default stop: 2% from entry, moved to 1% from the current price when it
\* is not on the stop's side of it, then rounded to the price step
default_sl_price(sym, pos_data, current_price) ==
    LET entry == recon_entry(pos_data, current_price)
        step == symbol_rules(sym).price_step
    IN  IF pos_data.side = "LONG"
        THEN IF current_price > 0 /\ entry * 98 >= current_price * 100
             THEN round_price_to_step(current_price * 99, 100, step)
             ELSE round_price_to_step(entry * 98, 100, step)
        ELSE IF current_price > 0 /\ entry * 102 <= current_price * 100
             THEN round_price_to_step(current_price * 101, 100, step)
             ELSE round_price_to_step(entry * 102, 100, step)

\* The default target: 4% from entry, with the same clamp and rounding
default_tp_price(sym, pos_data, current_price) ==
    LET entry == recon_entry(pos_data, current_price)
        step == symbol_rules(sym).price_step
    IN  IF pos_data.side = "LONG"
        THEN IF current_price > 0 /\ entry * 104 <= current_price * 100
             THEN round_price_to_step(current_price * 101, 100, step)
             ELSE round_price_to_step(entry * 104, 100, step)
        ELSE IF current_price > 0 /\ entry * 96 >= current_price * 100
             THEN round_price_to_step(current_price * 99, 100, step)
             ELSE round_price_to_step(entry * 96, 100, step)

\* One leg of the missing-order check.  R = [plans, calls, aborted,
\* adapter_symbol]; a placement that raises ends the whole pass.
recon_place(R, sym, pos_data, current_price, plan_type, trigger, outcome) ==
    LET order == PlanOrder(plan_type, trigger, pos_data.size, pos_data.side)
        ok == tp_sl_success(R.plans[sym], outcome)
    IN  IF R.aborted \/ ~(recon_entry(pos_data, current_price) > 0) THEN R
        ELSE [R EXCEPT !.plans = place_tp_sl_order(R.plans, sym, order, outcome),
                       !.calls = Append(@, TpSlCall(sym, order, ok)),
                       !.aborted = (outcome = "raises")]

\* p_list: the rows of /capi/v2/order/currentPlan as the pass reads them.  An
\* answered query lists the orders with their planType ("ok") or, as the V2
\* API does, with their close type only ("bare"); an error body has no 'data'
listing(plans, answer) ==
    IF answer = "ok" THEN plans
    ELSE IF answer = "bare"
         THEN [i \in DOMAIN plans |-> [plans[i] EXCEPT !.planType = "none"]]
    ELSE <<>>

\* The body of the loop for one symbol.  o = [plans, ticker, sl, tp] answers the
\* plan query, the ticker query and the two placements.
recon_symbol(R, sym, pos_data, px, o) ==
    LET p_list == listing(R.plans[sym], o.plans)
        IsSl(p) == is_sl(p, pos_data)
        IsTp(p) == is_tp(p, pos_data)
        sl_orders == SelectSeq(p_list, IsSl)
        tp_orders == SelectSeq(p_list, IsTp)
        redundant == Len(sl_orders) > 1 \/ Len(tp_orders) > 1
        cancelled == cancel_all_plan_orders(R.plans, sym)
        current_price == IF o.ticker = "ok" THEN px[sym] ELSE 0
        R0 == [R EXCEPT !.adapter_symbol = sym]
        R1 == IF redundant THEN [R0 EXCEPT !.plans = cancelled.plans] ELSE R0
        R2 == IF redundant \/ sl_orders = <<>>
              THEN recon_place(R1, sym, pos_data, current_price, "loss_plan",
                               default_sl_price(sym, pos_data, current_price), o.sl)
              ELSE R1
        R3 == IF redundant \/ tp_orders = <<>>
              THEN recon_place(R2, sym, pos_data, current_price, "profit_plan",
                               default_tp_price(sym, pos_data, current_price), o.tp)
              ELSE R2
    IN  IF R.aborted THEN R
        ELSE IF o.plans = "raises" THEN [R0 EXCEPT !.aborted = TRUE]
        ELSE IF redundant /\ cancelled.raised THEN [R0 EXCEPT !.aborted = TRUE]
        ELSE R3

RECURSIVE recon_from(_, _, _, _, _)
recon_from(i, R, pos_map, px, out) ==
    IF i > Len(SymbolList) THEN R
    ELSE LET sym == SymbolList[i]
         IN  recon_from(i + 1,
                        IF pos_map[sym] = <<>> THEN R
                        ELSE recon_symbol(R, sym, pos_map[sym][1], px, out[sym]),
                        pos_map, px, out)

\* check_and_fix_plans: `positions_outcome` answers the position query; an error
\* body or an exception there ends the pass with nothing done
check_and_fix_plans(pos, plans, px, asym, positions_outcome, out) ==
    LET R == [plans |-> plans, calls |-> <<>>, aborted |-> FALSE,
              adapter_symbol |-> asym]
    IN  IF positions_outcome = "raises" THEN [R EXCEPT !.aborted = TRUE]
        ELSE IF positions_outcome = "rejected" THEN R
        ELSE recon_from(1, R, active_pos_map(pos), px, out)

-----------------------------------------------------------------------------
(* The inputs of the model *)

EquityLevels == {StartEquity, 970}
PriceLevels == {9000, 9400, 10000}
StartPrice == 100 * 100      \* 100.00 USD
AtrRaws == {None, 50}

NoSignal == [signal |-> "NEUTRAL", confidence |-> 0, regime |-> "RANGE"]
Signals ==
    {NoSignal} \cup
    [signal : Sides, confidence : {80}, regime : {"TREND_UP"}]

Holding(size, avg) == [size |-> size, avg |-> avg]
FlatAccount == [sym \in Symbols |-> Flat]

Observed(op, sym, stage, calls, answered) ==
    [op |-> op, sym |-> sym, stage |-> stage, calls |-> calls, answered |-> answered]

\* The answers the exchange may still give, and the count of the runs it failed
Answers == IF faults < MaxFaults THEN Outcomes ELSE {"ok"}
CountFault == faults' = IF last'.answered THEN faults ELSE faults + 1

OpenSymbols(pos) == {sym \in Symbols : position_rows(pos, sym) # <<>>}

-----------------------------------------------------------------------------
(* The state after SentinelLiveTradingBot.__init__ has set its fields, before *)
(* sync_state                                                               *)

Init ==
    /\ positions = [sym \in Symbols |-> 0]
    /\ active_trades = [sym \in Symbols |-> <<>>]
    /\ current_equity = StartEquity
    /\ peak_equity = None
    /\ trading_halted = FALSE
    /\ last_trade_time = [sym \in Symbols |-> GraceAge]
    /\ last_trade_ts = [sym \in Symbols |-> GraceAge]
    /\ adapter_symbol = SymbolList[Len(SymbolList)]
    /\ last_leverage = [sym \in Symbols |-> StartLeverage]
    /\ pc = "init"
    /\ cur = 1
    /\ exPos = FlatAccount
    /\ exPlans = [sym \in Symbols |-> <<>>]
    /\ price = [sym \in Symbols |-> StartPrice]
    /\ exEquity = StartEquity
    /\ next_order_id = 0
    /\ faults = 0
    /\ moves = 0
    /\ last = Observed("none", "none", "none", <<>>, TRUE)
    /\ admitted = <<>>

\* The rest of __init__ up to the consolidation: sync_state and
\* pnl_guard.update.  O is the set of answers the exchange may give.
StartupWith(O) ==
    /\ pc = "init"
    /\ \E assets_out \in O, positions_out \in O :
         LET eq == sync_equity(current_equity, exEquity, assets_out)
             g1 == pnl_update(peak_equity, trading_halted, eq)
             g2 == pnl_update(g1.peak, g1.halted, eq)
         IN  /\ current_equity' = eq
             /\ peak_equity' = g2.peak
             /\ trading_halted' = g2.halted
             /\ positions' = sync_positions(positions, exPos, positions_out)
             /\ active_trades' = sync_trades(active_trades, exPos, positions_out)
             /\ last' = Observed("startup", "all", "done", <<>>,
                                 assets_out = "ok" /\ positions_out = "ok")
    /\ pc' = "init_consolidate"
    /\ CountFault
    /\ UNCHANGED <<last_trade_time, last_trade_ts, adapter_symbol, last_leverage, cur, exVars, moves,
                   admitted>>

Startup == StartupWith(Answers)

\* consolidate_hedged_positions, called at the end of __init__ and from the
\* heartbeat when loop_count % 360 == 0
ConsolidateWith(O) ==
    /\ pc \in {"init_consolidate", "consolidate"}
    /\ \E close_out \in O :
         LET C == consolidate_hedged_positions(
                     [positions |-> positions, active_trades |-> active_trades,
                      exPos |-> exPos, exPlans |-> exPlans, calls |-> <<>>,
                      adapter_symbol |-> adapter_symbol],
                     close_out)
         IN  /\ close_out # "ok" => C.calls # <<>>
             /\ positions' = C.positions
             /\ active_trades' = C.active_trades
             /\ exPos' = C.exPos
             /\ exPlans' = C.exPlans
             /\ adapter_symbol' = C.adapter_symbol
             /\ last' = Observed("consolidate", "all", "done", C.calls, close_out = "ok")
    /\ pc' = IF pc = "init_consolidate" THEN "top" ELSE "recon"
    /\ CountFault
    /\ UNCHANGED <<current_equity, peak_equity, trading_halted, last_trade_time,
                   last_trade_ts, last_leverage, cur, price, exEquity, next_order_id, moves, admitted>>

Consolidate == ConsolidateWith(Answers)

\* The top of the while loop of run(): cleanup_inactive_trades and the check of
\* the drawdown guard (halted with positions open: sleep 30 s and continue)
LoopTop ==
    /\ pc = "top"
    /\ LET open_positions == Cardinality({sym \in Symbols : Abs(positions[sym]) > 0})
           resets == trading_halted /\ open_positions = 0
           waits == trading_halted /\ open_positions # 0
       IN  /\ active_trades' = cleanup_inactive_trades(active_trades, positions)
           /\ peak_equity' = IF resets THEN None ELSE peak_equity
           /\ trading_halted' = IF resets THEN FALSE ELSE trading_halted
           /\ pc' = IF waits THEN "sleep" ELSE "sym"
           /\ last' = Observed("top", "all",
                               IF waits THEN "halted" ELSE IF resets THEN "reset" ELSE "go",
                               <<>>, TRUE)
    /\ cur' = 1
    /\ UNCHANGED <<positions, current_equity, last_trade_time, last_trade_ts,
                   adapter_symbol, last_leverage, exVars, envVars, admitted>>

\* The answers to the placements of manage_active_trades: one per trade, "ok"
\* where the trade sends none
ManageAnswers(O, trades, current_price) ==
    {mout \in [DOMAIN trades -> O] :
        \A i \in DOMAIN trades : ~upgrades(trades[i], current_price) => mout[i] = "ok"}

\* The state execute_trade works on
EntryState(trades, plans) ==
    [active_trades |-> trades, positions |-> positions, equity |-> current_equity,
     exPos |-> exPos,
     exPlans |-> plans, last_trade_ts |-> last_trade_ts,
     last_leverage |-> last_leverage,
     next_order_id |-> next_order_id, calls |-> <<>>, stage |-> "none"]

\* One iteration of `for symbol in self.symbols`: fetch_tick, manage_active_trades,
\* the signal gate, can_open_trade, execute_trade, last_trade_time.  O answers
\* the requests; I holds the points of execute_trade at which a
\* KeyboardInterrupt may arrive: it ends the loop (except KeyboardInterrupt:
\* break) before last_trade_time is set.
SymbolStepAt(O, I) ==
    /\ pc = "sym"
    /\ LET sym == SymbolList[cur]
           current_price == price[sym]
       IN  \E tick_out \in O, sig \in Signals :
           \E mout \in (IF tick_out = "ok"
                        THEN ManageAnswers(O, active_trades[sym], current_price)
                        ELSE {[i \in DOMAIN active_trades[sym] |-> "ok"]}) :
           \E m \in {manage_active_trades(sym, current_price, active_trades[sym],
                                          exPlans, mout)} :
           \E cleaned \in {cleanup_inactive_trades(
                               [active_trades EXCEPT ![sym] = m.trades], positions)} :
             LET managed == [active_trades EXCEPT ![sym] = m.trades]
                 gate == /\ sig.signal \in {"LONG", "SHORT"}
                         /\ sig.confidence >= MinConfidence
                         /\ last_trade_time[sym] > CooldownSeconds
                 trade_class == determine_trade_class(sig.regime, sig.confidence)
                 risk_pct == get_risk_pct(sig.regime, sig.confidence)
                 applied_leverage == resolve_leverage(sig.confidence, sig.regime)
                 admits == can_open_trade(cleaned, positions, sym, sig.signal,
                                          trade_class, risk_pct, current_price,
                                          sig.confidence)
                 mok == \A i \in DOMAIN mout : mout[i] = "ok"
             IN  IF tick_out # "ok"
                 THEN /\ sig = NoSignal
                      /\ last' = Observed("symbol", sym, "tick_error", <<>>, FALSE)
                      /\ UNCHANGED <<positions, active_trades, last_trade_time,
                                     last_trade_ts, adapter_symbol, last_leverage, exPos, exPlans,
                                     next_order_id, admitted>>
                 ELSE IF m.raised \/ ~gate \/ ~admits
                 THEN /\ (m.raised \/ ~gate) => sig = NoSignal
                      /\ active_trades' = IF m.raised \/ ~gate THEN managed ELSE cleaned
                      /\ exPlans' = m.plans
                      /\ adapter_symbol' = IF m.calls # <<>> THEN sym ELSE adapter_symbol
                      /\ last' = Observed("symbol", sym,
                                          IF m.raised THEN "manage_raised"
                                          ELSE IF ~gate THEN "no_entry" ELSE "refused",
                                          m.calls, mok)
                      /\ UNCHANGED <<positions, last_trade_time, last_trade_ts, exPos,
                                     last_leverage, next_order_id, admitted>>
                 ELSE \E atr_raw \in AtrRaws, order_out \in O :
                      \E tp_out \in (IF order_out = "ok" THEN O ELSE {"ok"}) :
                      \E close_out \in (IF tp_out = "ok" THEN {"ok"} ELSE O) :
                      \E leverage_out \in (IF order_out = "ok" THEN O ELSE {"ok"}) :
                      \E log_out \in (IF order_out = "ok" /\ tp_out = "ok"
                                           /\ leverage_out = "ok"
                                       THEN O ELSE {"ok"}) :
                      \E interrupt \in I :
                      \E E \in {execute_trade(EntryState(cleaned, m.plans), sym,
                                     sig.signal, sig.confidence, current_price,
                                     sig.regime, applied_leverage, risk_pct, atr_raw,
                                     [order |-> order_out, tp |-> tp_out,
                                      close |-> close_out, cleanup_close |-> close_out,
                                      leverage |-> leverage_out, log |-> log_out,
                                      interrupt |-> interrupt])} :
                            /\ (leverage_out # "ok") =>
                                   \E i \in DOMAIN E.calls : E.calls[i].op = "set_leverage"
                            /\ (log_out # "ok") =>
                                   \E i \in DOMAIN E.calls : E.calls[i].op = "upload_ai_log"
                            /\ active_trades' = E.active_trades
                            /\ positions' = E.positions
                            /\ exPos' = E.exPos
                            /\ exPlans' = E.exPlans
                            /\ last_trade_ts' = E.last_trade_ts
                            /\ next_order_id' = E.next_order_id
                            /\ admitted' = IF E.next_order_id # next_order_id
                                           THEN Append(admitted, risk_pct) ELSE admitted
                            /\ last_trade_time' = IF E.stage = "interrupted"
                                                  THEN last_trade_time
                                                  ELSE [last_trade_time EXCEPT ![sym] = 0]
                            /\ adapter_symbol' = sym
                            /\ last_leverage' = E.last_leverage
                            /\ last' = Observed("symbol", sym, E.stage, m.calls \o E.calls,
                                           /\ mok /\ order_out = "ok"
                                           /\ tp_out = "ok" /\ close_out = "ok"
                                           /\ leverage_out = "ok" /\ log_out = "ok")
    /\ cur' = IF cur < Len(SymbolList) THEN cur + 1 ELSE 1
    /\ pc' = IF last'.stage = "interrupted" THEN "stopped"
             ELSE IF cur < Len(SymbolList) THEN "sym" ELSE "hb"
    /\ CountFault
    /\ UNCHANGED <<current_equity, peak_equity, trading_halted, price, exEquity, moves>>

\* The iteration when no interrupt arrives
SymbolStepWith(O) == SymbolStepAt(O, {"none"})

SymbolStep == SymbolStepWith(Answers)

\* The heartbeat block at the end of an iteration.  The model does not count
\* the iterations: `beat` is the class the incremented loop_count falls in, "idle"
\* (no multiple of 6), "refresh" (an odd multiple of 6), "recon" (a multiple
\* of 12) or "hourly" (a multiple of 360).  Every 6th iteration runs
\* refresh_account_state; the consolidation and check_and_fix_plans follow.
HeartbeatWith(O) ==
    /\ pc = "hb"
    /\ \E beat \in {"idle", "refresh", "recon", "hourly"} :
         IF beat = "idle"
         THEN /\ pc' = "sleep"
              /\ last' = Observed("heartbeat", "all", "idle", <<>>, TRUE)
              /\ UNCHANGED <<positions, current_equity, peak_equity, trading_halted>>
         ELSE \E assets_out \in O, positions_out \in O :
              LET g == refresh_equity(current_equity, peak_equity, trading_halted,
                                      exEquity, assets_out)
              IN  /\ current_equity' = g.equity
                  /\ peak_equity' = g.peak
                  /\ trading_halted' = g.halted
                  /\ positions' = refresh_positions(positions, exPos, positions_out)
                  /\ pc' = IF beat = "refresh" THEN "sleep"
                           ELSE IF beat = "recon" THEN "recon" ELSE "consolidate"
                  /\ last' = Observed("heartbeat", "all", beat,
                                      <<QueryCall("get_account_assets", assets_out),
                                        QueryCall("get_positions", positions_out)>>,
                                      assets_out = "ok" /\ positions_out = "ok")
    /\ CountFault
    /\ UNCHANGED <<active_trades, last_trade_time, last_trade_ts, adapter_symbol, last_leverage, cur,
                   exVars, moves, admitted>>

Heartbeat == HeartbeatWith(Answers)

AllOk == [plans |-> "ok", ticker |-> "ok", sl |-> "ok", tp |-> "ok"]

\* The answers one symbol's part of a reconciliation pass can use: the plan
\* query, then (unless the pass ends there) the ticker and the placements of
\* the legs found missing; an answer that is not used is "ok"
SymbolAnswers(O, pos, plans, sym) ==
    LET pm == active_pos_map(pos)[sym]
        IsSl(p) == is_sl(p, pm[1])
        IsTp(p) == is_tp(p, pm[1])
        n_sl == Len(SelectSeq(plans[sym], IsSl))
        n_tp == Len(SelectSeq(plans[sym], IsTp))
    IN  IF pm = <<>> THEN {AllOk}
        ELSE {a \in [plans : O, ticker : O \ {"rejected"}, sl : O, tp : O] :
                /\ a.plans = "raises" => a = [AllOk EXCEPT !.plans = "raises"]
                /\ (a.plans = "ok" /\ (n_sl > 1 \/ n_tp > 1)) => a = AllOk
                /\ (a.plans = "ok" /\ n_sl = 1) => a.sl = "ok"
                /\ (a.plans = "ok" /\ n_tp = 1) => a.tp = "ok"
                /\ (a.plans = "ok" /\ n_sl = 1 /\ n_tp = 1) => a.ticker = "ok"}

\* One pass of check_and_fix_plans
ReconPassWith(O) ==
    /\ \E positions_out \in O :
       \E a1 \in (IF positions_out = "ok"
                  THEN SymbolAnswers(O, exPos, exPlans, SymbolList[1]) ELSE {AllOk}) :
       \E a2 \in (IF positions_out = "ok" /\ Len(SymbolList) > 1
                  THEN SymbolAnswers(O, exPos, exPlans, SymbolList[Len(SymbolList)])
                  ELSE {AllOk}) :
         LET out == [sym \in Symbols |-> IF sym = SymbolList[1] THEN a1 ELSE a2]
             R == check_and_fix_plans(exPos, exPlans, price, adapter_symbol,
                                      positions_out, out)
         IN  /\ exPlans' = R.plans
             /\ adapter_symbol' = R.adapter_symbol
             /\ last' = Observed("recon", "all",
                                 IF R.aborted THEN "aborted" ELSE "done", R.calls,
                                 positions_out = "ok" /\ a1 = AllOk /\ a2 = AllOk)
    /\ UNCHANGED <<positions, active_trades, current_equity, peak_equity, trading_halted,
                   last_trade_time, last_trade_ts, last_leverage, cur, exPos, price, exEquity,
                   next_order_id, moves, admitted>>

\* check_and_fix_plans in the heartbeat, every 12th iteration
ReconWith(O) ==
    /\ pc = "recon"
    /\ ReconPassWith(O)
    /\ pc' = "sleep"
    /\ CountFault

Recon == ReconWith(Answers)

\* Elapsed time that is only compared with the 300 s cooldown
ElapseCooldown(age, jump) == Min(Elapse(age, jump), GraceAge)

\* time.sleep at the end of the iteration (or the 30 s of a halted one): every
\* timestamp grows older
Sleep ==
    /\ pc = "sleep"
    /\ \E jump \in {"tick", "grace"} :
         /\ last_trade_time' = [sym \in Symbols |-> ElapseCooldown(last_trade_time[sym], jump)]
         /\ last_trade_ts' = [sym \in Symbols |-> ElapseCooldown(last_trade_ts[sym], jump)]
         /\ active_trades' = [sym \in Symbols |-> ElapseTrades(active_trades[sym], jump)]
    /\ pc' = "top"
    /\ last' = Observed("sleep", "all", "done", <<>>, TRUE)
    /\ UNCHANGED <<positions, current_equity, peak_equity, trading_halted,
                   adapter_symbol, last_leverage, cur, exVars, envVars, admitted>>

-----------------------------------------------------------------------------
(* The market and the exchange, while the bot sleeps *)

PriceMove ==
    /\ pc = "sleep"
    /\ moves < MaxMoves
    /\ moves' = moves + 1
    /\ \E sym \in Symbols : \E p \in PriceLevels :
         /\ p # price[sym]
         /\ price' = [price EXCEPT ![sym] = p]
    /\ last' = Observed("market", "all", "price", <<>>, TRUE)
    /\ UNCHANGED <<botVars, exPos, exPlans, exEquity, next_order_id, faults, admitted>>

EquityMove ==
    /\ pc = "sleep"
    /\ moves < MaxMoves
    /\ moves' = moves + 1
    /\ \E e \in EquityLevels :
         /\ e # exEquity
         /\ exEquity' = e
    /\ last' = Observed("market", "all", "equity", <<>>, TRUE)
    /\ UNCHANGED <<botVars, exPos, exPlans, price, next_order_id, faults, admitted>>

\* Does the market price trigger the plan order?
plan_triggers(p, px) ==
    LET below == \/ p.planType = "loss_plan" /\ p.side = "LONG"
                 \/ p.planType = "profit_plan" /\ p.side = "SHORT"
    IN  /\ plan_is_live(p)
        /\ p.planType \in {"loss_plan", "profit_plan"}
        /\ IF below THEN px <= p.triggerPrice ELSE px >= p.triggerPrice

\* The exchange executes a triggered plan order: the position of its side is
\* closed and the side's other plan orders are cancelled with it
PlanTrigger ==
    /\ pc = "sleep"
    /\ \E sym \in Symbols :
       \E i \in DOMAIN exPlans[sym] :
         LET p == exPlans[sym][i]
             OtherSide(q) == q.side # p.side
         IN  /\ exPos[sym][p.side].size > 0
             /\ plan_triggers(p, price[sym])
             /\ exPos' = [exPos EXCEPT ![sym][p.side] = NoPosition]
             /\ exPlans' = [exPlans EXCEPT ![sym] = SelectSeq(@, OtherSide)]
    /\ last' = Observed("market", "all", "trigger", <<>>, TRUE)
    /\ UNCHANGED <<botVars, price, exEquity, next_order_id, envVars, admitted>>

Next ==
    \/ Startup
    \/ Consolidate
    \/ LoopTop
    \/ SymbolStep
    \/ Heartbeat
    \/ Recon
    \/ Sleep
    \/ PriceMove
    \/ EquityMove
    \/ PlanTrigger

Spec == Init /\ [][Next]_vars


-----------------------------------------------------------------------------
(* manage_active_trades on its own: registered trades, managed at arbitrary *)
(* prices with arbitrary answers of the exchange                           *)

ManagePrices == {8000, 9000, 9400, 9800, 10000, 10200, 10250, 10600, 11000}

EntryOk ==
    [order |-> "ok", tp |-> "ok", close |-> "ok", cleanup_close |-> "ok",
     leverage |-> "ok", log |-> "ok", interrupt |-> "none"]

\* The state execute_trade works on in a fresh bot
FreshEntryState ==
    [active_trades |-> [sym \in Symbols |-> <<>>],
     positions |-> [sym \in Symbols |-> 0],
     equity |-> StartEquity,
     exPos |-> FlatAccount,
     exPlans |-> [sym \in Symbols |-> <<>>],
     last_trade_ts |-> [sym \in Symbols |-> GraceAge],
     last_leverage |-> [sym \in Symbols |-> StartLeverage],
     next_order_id |-> 0, calls |-> <<>>, stage |-> "none"]

\* S after an answered trend entry at p, the cooldown having passed again
Entered(S, sym, direction, p) ==
    [execute_trade(S, sym, direction, 80, p, "TREND_UP",
                   resolve_leverage(80, "TREND_UP"), 20, 50, EntryOk)
        EXCEPT !.last_trade_ts[sym] = GraceAge]

\* A bot holding one or two trades it entered itself
InitManage ==
    /\ \E d1 \in Sides, p1 \in PriceLevels, d2 \in Sides, p2 \in PriceLevels :
       \E second \in BOOLEAN :
       \E E1 \in {Entered(FreshEntryState, SymbolList[1], d1, p1)} :
       \E E \in {IF second THEN Entered(E1, SymbolList[1], d2, p2) ELSE E1} :
         /\ E.stage = "entered"
         /\ active_trades = E.active_trades
         /\ positions = E.positions
         /\ exPos = E.exPos
         /\ exPlans = E.exPlans
         /\ next_order_id = E.next_order_id
         /\ price = [sym \in Symbols |-> IF second THEN p2 ELSE p1]
         /\ admitted = [i \in 1..E.next_order_id |-> 20]
    /\ current_equity = StartEquity
    /\ peak_equity = StartEquity
    /\ trading_halted = FALSE
    /\ last_trade_time = [sym \in Symbols |-> 0]
    /\ last_trade_ts = [sym \in Symbols |-> 0]
    /\ adapter_symbol = SymbolList[1]
    /\ last_leverage = [sym \in Symbols |-> StartLeverage]
    /\ pc = "sym"
    /\ cur = 1
    /\ exEquity = StartEquity
    /\ faults = 0
    /\ moves = 0
    /\ last = Observed("none", "none", "none", <<>>, TRUE)

\* fetch_tick at an arbitrary price, then manage_active_trades
ManageTick ==
    /\ \E sym \in Symbols, p \in ManagePrices :
       \E mout \in ManageAnswers(Outcomes, active_trades[sym], p) :
       \E m \in {manage_active_trades(sym, p, active_trades[sym], exPlans, mout)} :
         /\ price' = [price EXCEPT ![sym] = p]
         /\ active_trades' = [active_trades EXCEPT ![sym] = m.trades]
         /\ exPlans' = m.plans
         /\ adapter_symbol' = IF m.calls # <<>> THEN sym ELSE adapter_symbol
         /\ last' = Observed("manage", sym,
                             IF m.raised THEN "manage_raised" ELSE "managed",
                             m.calls, \A i \in DOMAIN mout : mout[i] = "ok")
    /\ UNCHANGED <<positions, current_equity, peak_equity, trading_halted,
                   last_trade_time, last_trade_ts, last_leverage, pc, cur, exPos, exEquity,
                   next_order_id, envVars, admitted>>

NextManage == ManageTick

SpecManage == InitManage /\ [][NextManage]_vars

\* The stop of a trade has not moved against its position from `old` to `new`
StopHeld(direction, old, new) ==
    IF direction = "LONG" THEN new >= old ELSE new <= old

\* C1: over any sequence of manage_active_trades calls at arbitrary prices, a
\* trade's profit_lock_tier never decreases and its stop price never moves
\* against the position (never lower for a LONG, never higher for a SHORT).
C1_TierAndStopMonotone ==
    [][\A sym \in Symbols :
         /\ Len(active_trades'[sym]) = Len(active_trades[sym])
         /\ \A i \in DOMAIN active_trades[sym] :
              LET old == active_trades[sym][i]
                  new == active_trades'[sym][i]
              IN  /\ new.order_id = old.order_id
                  /\ Get(new, "profit_lock_tier", 0) >= Get(old, "profit_lock_tier", 0)
                  /\ StopHeld(old.direction, old.stop_loss, new.stop_loss)]_vars

\* A SHORT entered at 100.00 that reached the 10% tier (stop locked at 97.00)
\* has been managed again at 94.00 (ROI 6%) and keeps tier and stop.
C1_Witness ==
    /\ last.op = "manage"
    /\ \E sym \in Symbols : \E i \in DOMAIN active_trades[sym] :
         LET t == active_trades[sym][i]
         IN  /\ t.direction = "SHORT"
             /\ t.entry_price = 10000
             /\ price[sym] = 9400
             /\ Get(t, "profit_lock_tier", 0) = 3
             /\ t.stop_loss = 9700

-----------------------------------------------------------------------------
(* Properties of the main loop *)

\* The trades execute_trade registered itself (sync_state's have no order_id)
EnteredTrades(sym) ==
    {i \in DOMAIN active_trades[sym] :
        Get(active_trades[sym][i], "order_id", None) # None}

\* A plan order of the type for the side is pending on the exchange
LivePlan(sym, plan_type, side) ==
    \E i \in DOMAIN exPlans[sym] :
        /\ plan_is_live(exPlans[sym][i])
        /\ exPlans[sym][i].planType = plan_type
        /\ exPlans[sym][i].side = side

\* No close request of the last handler run went unanswered
ClosesAnswered ==
    \A i \in DOMAIN last.calls :
        last.calls[i].op = "close_all_positions" => last.calls[i].accepted

\* C3: when a protective leg fails to be placed after a successful entry
\* order, then after execute_trade has returned the exchange position of the
\* symbol is closed and no trade of that entry is in the active set (the
\* exchange having answered every close request it was sent).
C3_ClosedWhenLegFails ==
    \A sym \in Symbols :
        (/\ last.op = "symbol" /\ last.sym = sym
         /\ last.stage \in {"tp_failed", "tp_raised"}
         /\ ClosesAnswered)
        => /\ exPos[sym] = Flat
           /\ \A i \in EnteredTrades(sym) :
                active_trades[sym][i].order_id # next_order_id

\* C4: once manage_active_trades has run on a trade entered 3 seconds ago or
\* earlier, the trade's stop order is placed: sl_placed is true and a stop
\* order for its side is pending on the exchange.
C4_StopPlacedAfterDelay ==
    \A sym \in Symbols :
        (/\ last.op = "symbol" /\ last.sym = sym
         /\ last.stage \in {"no_entry", "refused"}
         /\ last.answered)
        => \A i \in EnteredTrades(sym) :
             LET t == active_trades[sym][i]
             IN  (t.entry_time >= TickAge /\ exPos[sym][t.direction].size > 0)
                 => /\ t.sl_placed
                    /\ LivePlan(sym, "loss_plan", t.direction)

\* The risk of the open trades as admitted, in tenths of a percent
RECURSIVE AdmittedRisk(_, _)
AdmittedRisk(sym, i) ==
    IF i > Len(active_trades[sym]) THEN 0
    ELSE LET t == active_trades[sym][i]
             open == /\ Get(t, "order_id", None) \in DOMAIN admitted
                     /\ exPos[sym][t.direction].size > 0
         IN  (IF open THEN admitted[t.order_id] ELSE 0) + AdmittedRisk(sym, i + 1)

RECURSIVE OpenRisk(_)
OpenRisk(k) ==
    IF k > Len(SymbolList) THEN 0
    ELSE AdmittedRisk(SymbolList[k], 1) + OpenRisk(k + 1)

\* C5: at the moment a trade is admitted, the risk_pct of the open trades,
\* the admitted one included, sums to at most the portfolio risk cap.
C5_RiskWithinCap ==
    (last.op = "symbol" /\ last.stage = "entered") => OpenRisk(1) <= PortfolioRiskCap

-----------------------------------------------------------------------------
(* check_and_fix_plans on its own: passes in immediate succession over an *)
(* account the bot found on the exchange, with no market move in between    *)

ReconPrices == {9500, 9810, 10000, 10500}

\* The accounts: one side held (average price known, unknown, or off the
\* round figure), both sides held, nothing held
ReconAccounts ==
    {[LONG |-> Holding(2000, avg), SHORT |-> NoPosition] : avg \in {0, 10000, 10010}}
    \cup {[LONG |-> NoPosition, SHORT |-> Holding(2000, 10000)],
          [LONG |-> Holding(5000, 10000), SHORT |-> Holding(5100, 10000)],
          Flat}

\* The side check_and_fix_plans sees of an account, and its size
SeenSide(acct) == IF acct.SHORT.size > 0 THEN "SHORT" ELSE "LONG"

\* The plan orders an account may carry: two stops and a target of the side
PlanPool(acct) ==
    LET side == SeenSide(acct)
        size == acct[side].size
    IN  IF acct = Flat THEN <<>>
        ELSE IF side = "LONG"
        THEN <<PlanOrder("loss_plan", 9800, size, side),
               PlanOrder("loss_plan", 9700, size, side),
               PlanOrder("profit_plan", 10400, size, side)>>
        ELSE <<PlanOrder("loss_plan", 10200, size, side),
               PlanOrder("loss_plan", 10300, size, side),
               PlanOrder("profit_plan", 9600, size, side)>>

\* The members of pool at the indices in keep, in order
Pick(pool, keep) ==
    LET F[i \in 0..Len(pool)] ==
            IF i = 0 THEN <<>>
            ELSE IF i \in keep THEN Append(F[i - 1], pool[i]) ELSE F[i - 1]
    IN  F[Len(pool)]

InitRecon ==
    /\ \E acct \in ReconAccounts, p \in ReconPrices :
       \E keep \in SUBSET (1..Len(PlanPool(acct))) :
         /\ exPos = [sym \in Symbols |-> acct]
         /\ exPlans = [sym \in Symbols |-> Pick(PlanPool(acct), keep)]
         /\ price = [sym \in Symbols |-> p]
         /\ positions = sync_positions([sym \in Symbols |-> 0],
                                       [sym \in Symbols |-> acct], "ok")
         /\ active_trades = sync_trades([sym \in Symbols |-> <<>>],
                                        [sym \in Symbols |-> acct], "ok")
    /\ current_equity = StartEquity
    /\ peak_equity = StartEquity
    /\ trading_halted = FALSE
    /\ last_trade_time = [sym \in Symbols |-> GraceAge]
    /\ last_trade_ts = [sym \in Symbols |-> GraceAge]
    /\ adapter_symbol = SymbolList[Len(SymbolList)]
    /\ last_leverage = [sym \in Symbols |-> StartLeverage]
    /\ pc = "recon"
    /\ cur = 1
    /\ exEquity = StartEquity
    /\ next_order_id = 0
    /\ faults = 0
    /\ moves = 0
    /\ last = Observed("none", "none", "none", <<>>, TRUE)
    /\ admitted = <<>>

\* One pass; the next one follows at once
ReconPass == ReconPassWith(Outcomes) /\ UNCHANGED <<pc, faults>>

NextRecon == ReconPass

SpecRecon == InitRecon /\ [][NextRecon]_vars

\* The stop (target) orders check_and_fix_plans would count for the position of
\* sym, were its plan query answered
StopsOf(pos, plans, sym) ==
    LET pm == active_pos_map(pos)[sym]
        IsSl(p) == is_sl(p, pm[1])
    IN  IF pm = <<>> THEN <<>> ELSE SelectSeq(plans[sym], IsSl)

TargetsOf(pos, plans, sym) ==
    LET pm == active_pos_map(pos)[sym]
        IsTp(p) == is_tp(p, pm[1])
    IN  IF pm = <<>> THEN <<>> ELSE SelectSeq(plans[sym], IsTp)

\* The placements of a type among the requests of a handler run
PlacementsOf(calls, sym, plan_type) ==
    LET Is(c) == /\ c.op = "place_tp_sl_order" /\ c.symbol = sym
                 /\ c.planType = plan_type
    IN  SelectSeq(calls, Is)

\* Every request of the run was accepted
AllAccepted(calls) == \A i \in DOMAIN calls : calls[i].accepted

\* C6: a pass of check_and_fix_plans that follows at once on a pass that ran to
\* its end with every request answered and accepted places no order, and
\* leaves the plan orders and the positions as they are.
C6_ReconIdempotent ==
    [][(/\ last.op = "recon" /\ last.stage = "done"
        /\ last.answered /\ AllAccepted(last.calls)
        /\ last'.op = "recon")
       => /\ last'.calls = <<>>
          /\ exPlans' = exPlans
          /\ exPos' = exPos]_vars

\* C7: a pass that finds more than one stop order, or more than one target
\* order, for a symbol's position, the exchange answering every request,
\* leaves the position with exactly one stop and one target.
C7_RedundancyRepaired ==
    [][\A sym \in Symbols :
         (/\ last'.op = "recon" /\ last'.answered
          /\ \/ Len(StopsOf(exPos, exPlans, sym)) > 1
             \/ Len(TargetsOf(exPos, exPlans, sym)) > 1)
         => /\ Len(StopsOf(exPos', exPlans', sym)) = 1
            /\ Len(TargetsOf(exPos', exPlans', sym)) = 1]_vars

\* C8: in a pass that runs to its end, for every symbol with a position, a leg
\* that is absent gets exactly one order of its type for the full position
\* size, and a leg that is present gets none.
C8_MissingLegRepaired ==
    [][\A sym \in Symbols :
         (/\ last'.op = "recon" /\ last'.stage = "done"
          /\ active_pos_map(exPos)[sym] # <<>>)
         => LET sl == PlacementsOf(last'.calls, sym, "loss_plan")
                tp == PlacementsOf(last'.calls, sym, "profit_plan")
                size == active_pos_map(exPos)[sym][1].size
            IN  /\ Len(sl) = IF StopsOf(exPos, exPlans, sym) = <<>> THEN 1 ELSE 0
                /\ Len(tp) = IF TargetsOf(exPos, exPlans, sym) = <<>> THEN 1 ELSE 0
                /\ \A i \in DOMAIN sl : sl[i].size = size
                /\ \A i \in DOMAIN tp : tp[i].size = size]_vars

\* The trigger is on the protective side of the current price, strictly
ValidAgainstPrice(c, current_price) ==
    IF c.planType = "loss_plan"
    THEN IF c.side = "LONG" THEN c.triggerPrice < current_price
         ELSE c.triggerPrice > current_price
    ELSE IF c.side = "LONG" THEN c.triggerPrice > current_price
         ELSE c.triggerPrice < current_price

\* C9: every order a pass places, the exchange having answered every request
\* (the ticker included), is valid against the current price after rounding:
\* a LONG's stop strictly below and target strictly above, a SHORT's reversed.
C9_ValidAgainstCurrentPrice ==
    (last.op = "recon" /\ last.answered)
    => \A i \in DOMAIN last.calls :
         last.calls[i].op = "place_tp_sl_order"
         => ValidAgainstPrice(last.calls[i], price[last.calls[i].symbol])

-----------------------------------------------------------------------------
(* Start-up on an account the exchange already holds: sync_state, then the *)
(* consolidation at the end of __init__                                     *)

\* The accounts at start-up: nothing held, one side held, and both sides held
\* with a net exposure of about 1% and about 11% of the gross exposure
StartAccounts ==
    {Flat,
     [LONG |-> Holding(2000, 10000), SHORT |-> NoPosition],
     [LONG |-> NoPosition, SHORT |-> Holding(2000, 10000)],
     [LONG |-> Holding(5000, 10000), SHORT |-> Holding(5100, 10000)],
     [LONG |-> Holding(5000, 10000), SHORT |-> Holding(4000, 10000)]}

InitStart ==
    /\ \E acct \in StartAccounts, p \in PriceLevels, e \in EquityLevels :
       \E keep \in SUBSET (1..Len(PlanPool(acct))) :
         /\ exPos = [sym \in Symbols |-> acct]
         /\ exPlans = [sym \in Symbols |-> Pick(PlanPool(acct), keep)]
         /\ price = [sym \in Symbols |-> p]
         /\ exEquity = e
    /\ positions = [sym \in Symbols |-> 0]
    /\ active_trades = [sym \in Symbols |-> <<>>]
    /\ current_equity = StartEquity
    /\ peak_equity = None
    /\ trading_halted = FALSE
    /\ last_trade_time = [sym \in Symbols |-> GraceAge]
    /\ last_trade_ts = [sym \in Symbols |-> GraceAge]
    /\ adapter_symbol = SymbolList[Len(SymbolList)]
    /\ last_leverage = [sym \in Symbols |-> StartLeverage]
    /\ pc = "init"
    /\ cur = 1
    /\ next_order_id = 0
    /\ faults = 0
    /\ moves = 0
    /\ last = Observed("none", "none", "none", <<>>, TRUE)
    /\ admitted = <<>>

NextStart ==
    \/ Startup
    \/ Consolidate

SpecStart == InitStart /\ [][NextStart]_vars

\* The exchange reports both sides of the symbol, with an absolute net exposure
\* below 5% of the gross exposure
SmallNetHedge(acct) ==
    /\ acct.LONG.size > 0
    /\ acct.SHORT.size > 0
    /\ Abs(acct.LONG.size - acct.SHORT.size) * 100
          < 5 * (acct.LONG.size + acct.SHORT.size)

\* C10: consolidate_hedged_positions, run after a sync_state whose queries
\* were answered and itself answered, closes both sides of every symbol the
\* exchange reports hedged with a net exposure below 5% of the gross, and
\* leaves every other symbol's position as it is.
C10_HedgeConsolidated ==
    [][(/\ last.op = "startup" /\ last.answered
        /\ last'.op = "consolidate" /\ last'.answered)
       => \A sym \in Symbols :
            exPos'[sym] = IF SmallNetHedge(exPos[sym]) THEN Flat ELSE exPos[sym]]_vars

-----------------------------------------------------------------------------
(* The main loop with an exchange that answers every request, under a fair  *)
(* scheduler: the bot's next step is always taken in the end, and the        *)
(* heartbeat falls on a multiple of 12 again and again                       *)

Reliable == {"ok"}

BotNext ==
    \/ StartupWith(Reliable)
    \/ ConsolidateWith(Reliable)
    \/ LoopTop
    \/ SymbolStepWith(Reliable)
    \/ HeartbeatWith(Reliable)
    \/ ReconWith(Reliable)
    \/ Sleep

\* A heartbeat at a multiple of 12: check_and_fix_plans is due
ReconDue == HeartbeatWith(Reliable) /\ pc' \in {"recon", "consolidate"}

FairNext ==
    \/ BotNext
    \/ PriceMove
    \/ EquityMove
    \/ PlanTrigger

FairSpec ==
    /\ Init
    /\ [][FairNext]_vars
    /\ WF_vars(BotNext)
    /\ SF_vars(ReconDue)

\* The side's position has a pending stop order and a pending target order
Protected(sym, side) ==
    /\ LivePlan(sym, "loss_plan", side)
    /\ LivePlan(sym, "profit_plan", side)

\* C2: whenever the exchange reports a nonzero position, the position
\* eventually has both a pending stop order and a pending target order on the
\* exchange, or is closed.
C2_EventuallyProtected ==
    \A sym \in Symbols : \A side \in Sides :
        (exPos[sym][side].size > 0)
            ~> (Protected(sym, side) \/ exPos[sym][side].size = 0)

\* The exchange holds no position on any symbol and side
ExchangeFlat ==
    \A sym \in Symbols : \A side \in Sides : exPos[sym][side].size = 0

\* C11: if the drawdown guard is halted and the exchange reports every
\* position at zero, the manager eventually resets the guard and goes on to
\* evaluate entries: a halt does not outlast the exposure.
C11_HaltEndsOnceFlat ==
    (trading_halted /\ ExchangeFlat) ~> ~trading_halted

\* The entry orders among the calls of the last step
EntryOrders(calls) ==
    {i \in DOMAIN calls : calls[i].op = "place_order"}

\* C12: the halted drawdown guard is reset only when no symbol has a nonzero
\* position; while the guard is halted and a position is open, a step leaves
\* the guard halted and submits no entry order.
C12_HaltHeldWhilePositionOpen ==
    [][(trading_halted /\ ~ExchangeFlat)
           => (trading_halted' /\ EntryOrders(last'.calls) = {})]_vars

-----------------------------------------------------------------------------
(* calculate_position_size on its own: arbitrary equity, pair, price, stop   *)
(* and risk percentage                                                       *)

SizeSymbols == {"btc", "eth", "sol"}
SizeEquities == {0, 1, 970, StartEquity}
SizePrices == {0, 9000, 10000, 25000}
SizeStopOffsets == {-20000, -5000, -100, 0, 100, 5000, 20000}
SizeRisks == {10, 15, 20}

\* The stops tried at price p (1e-4 USD): none, at the price, and around it
SizeStops(p) == {0} \cup {p * 100 + d : d \in SizeStopOffsets}

\* One call of calculate_position_size, with its raw size where one is computed
\* (sized: the early returns of lines 532 and 536 are passed)
SizeCall(sym, equity, p, stop_loss, risk_pct) ==
    [op |-> "calculate_position_size", symbol |-> sym, equity |-> equity,
     price |-> p, stop_loss |-> stop_loss, risk_pct |-> risk_pct,
     sized |-> p > 0 /\ stop_loss > 0 /\ p * 100 # stop_loss,
     raw |-> IF p > 0 /\ stop_loss > 0 /\ p * 100 # stop_loss
             THEN raw_size(equity, p, stop_loss, risk_pct)
             ELSE [num |-> 0, den |-> 1],
     size |-> calculate_position_size(sym, equity, p, stop_loss, risk_pct)]

InitSize ==
    /\ current_equity \in SizeEquities
    /\ peak_equity = current_equity
    /\ positions = [sym \in Symbols |-> 0]
    /\ active_trades = [sym \in Symbols |-> <<>>]
    /\ trading_halted = FALSE
    /\ last_trade_time = [sym \in Symbols |-> GraceAge]
    /\ last_trade_ts = [sym \in Symbols |-> GraceAge]
    /\ adapter_symbol = SymbolList[1]
    /\ last_leverage = [sym \in Symbols |-> StartLeverage]
    /\ pc = "sym"
    /\ cur = 1
    /\ exPos = FlatAccount
    /\ exPlans = [sym \in Symbols |-> <<>>]
    /\ price = [sym \in Symbols |-> StartPrice]
    /\ exEquity = current_equity
    /\ next_order_id = 0
    /\ faults = 0
    /\ moves = 0
    /\ admitted = <<>>
    /\ last = Observed("none", "none", "none", <<>>, TRUE)

\* calculate_position_size called with the bot's equity
SizeStep ==
    /\ \E sym \in SizeSymbols, p \in SizePrices, risk_pct \in SizeRisks :
       \E stop_loss \in SizeStops(p) :
         last' = Observed("calculate_position_size", sym, "sized",
                          <<SizeCall(sym, current_equity, p, stop_loss, risk_pct)>>, TRUE)
    /\ UNCHANGED <<botVars, exVars, envVars, admitted>>

\* The sizing as execute_trade calls it: one iteration of the symbol loop on the
\* bot's equity
NextSize == SizeStep \/ SymbolStep

SpecSize == InitSize /\ [][NextSize]_vars

\* C13: the quantity returned by calculate_position_size, times the price,
\* never exceeds the notional ceiling, before the rounding to the quantity step
\* and the minimum quantity and after it, for every equity, risk percentage,
\* price, stop and symbol rules.
C13_NotionalWithinCeiling ==
    \A i \in DOMAIN last.calls :
        LET c == last.calls[i]
        IN  c.op = "calculate_position_size" =>
                /\ (c.raw.num \div 10000) * c.price <= MaxNotionalUsd * 10 * c.raw.den
                /\ c.size * c.price <= MaxNotionalUsd * 100000

\* C14: the position sizer returns zero when the stop distance is zero or the
\* equity is zero, or the price or the stop is not positive; and an
\* execute_trade whose computed size is zero submits no order and registers no
\* trade.
C14_ZeroSizeIsNoTrade ==
    [][/\ \A i \in DOMAIN last'.calls :
            LET c == last'.calls[i]
            IN  (/\ c.op = "calculate_position_size"
                 /\ \/ c.stop_loss = c.price * 100
                    \/ c.equity = 0
                    \/ c.price <= 0
                    \/ c.stop_loss <= 0)
                    => c.size = 0
       /\ last'.stage = "zero_size"
            => /\ \A i \in DOMAIN last'.calls :
                      last'.calls[i].op \notin {"place_order", "place_tp_sl_order"}
               /\ exPos' = exPos
               /\ next_order_id' = next_order_id
               /\ active_trades' = active_trades
               /\ last_trade_ts' = last_trade_ts]_vars

\* execute_trade has stopped at a size of zero, the equity being zero
C14_Witness ==
    /\ last.op = "symbol"
    /\ last.stage = "zero_size"
    /\ current_equity = 0

-----------------------------------------------------------------------------
(* ExecutionGuard on its own: two symbols, trades registered and checks made *)
(* at arbitrary times                                                        *)

GuardSymbols == {"btc", "eth"}
GuardSleeps == {10, 290, 300}
GuardSizes == {1, 2000, 2001}
GuardPrices == {9000, 10000, 25000}

\* One call of can_trade and its answer
GuardCall(ts, sym, size, p) ==
    [op |-> "can_trade", symbol |-> sym, size |-> size, price |-> p,
     allowed |-> guard_can_trade(ts[sym], size, p)]

\* A guard that has registered no trade: last_trade_ts.get(symbol, 0) lies an
\* epoch back
InitGuard ==
    /\ last_trade_ts = [sym \in GuardSymbols |-> GraceAge]
    /\ last_trade_time = [sym \in Symbols |-> GraceAge]
    /\ current_equity = StartEquity
    /\ peak_equity = StartEquity
    /\ positions = [sym \in Symbols |-> 0]
    /\ active_trades = [sym \in Symbols |-> <<>>]
    /\ trading_halted = FALSE
    /\ adapter_symbol = SymbolList[1]
    /\ last_leverage = [sym \in Symbols |-> StartLeverage]
    /\ pc = "sym"
    /\ cur = 1
    /\ exPos = FlatAccount
    /\ exPlans = [sym \in Symbols |-> <<>>]
    /\ price = [sym \in Symbols |-> StartPrice]
    /\ exEquity = StartEquity
    /\ next_order_id = 0
    /\ faults = 0
    /\ moves = 0
    /\ admitted = <<>>
    /\ last = Observed("none", "none", "none", <<>>, TRUE)

\* can_trade(size, symbol, price)
GuardCheck ==
    /\ \E sym \in GuardSymbols, size \in GuardSizes, p \in GuardPrices :
         last' = Observed("can_trade", sym, "checked",
                          <<GuardCall(last_trade_ts, sym, size, p)>>, TRUE)
    /\ UNCHANGED <<botVars, exVars, envVars, admitted>>

\* register_trade(size, symbol)
GuardRegister ==
    /\ \E sym \in GuardSymbols :
         /\ last_trade_ts' = register_trade(last_trade_ts, sym)
         /\ last' = Observed("register_trade", sym, "registered", <<>>, TRUE)
    /\ UNCHANGED <<positions, active_trades, current_equity, peak_equity,
                   trading_halted, last_trade_time, adapter_symbol, last_leverage, pc, cur,
                   exVars, envVars, admitted>>

\* Time passes between two calls
GuardSleep ==
    /\ \E d \in GuardSleeps :
         last_trade_ts' = [sym \in GuardSymbols |-> Min(last_trade_ts[sym] + d, GraceAge)]
    /\ last' = Observed("sleep", "all", "done", <<>>, TRUE)
    /\ UNCHANGED <<positions, active_trades, current_equity, peak_equity,
                   trading_halted, last_trade_time, adapter_symbol, last_leverage, pc, cur,
                   exVars, envVars, admitted>>

NextGuard == GuardCheck \/ GuardRegister \/ GuardSleep

SpecGuard == InitGuard /\ [][NextGuard]_vars

\* C15: can_trade(symbol, size, price) is false if less than cooldown_seconds
\* have passed since the last trade registered for that symbol or if
\* size x price exceeds the notional ceiling, and true otherwise; a trade
\* registered for one symbol blocks no other symbol.
C15_GuardPerSymbol ==
    [][/\ \A i \in DOMAIN last'.calls :
            LET c == last'.calls[i]
            IN  c.op = "can_trade" =>
                    (c.allowed <=>
                        ~ \/ last_trade_ts[c.symbol] < CooldownSeconds
                          \/ c.size * c.price > MaxNotionalUsd * 100000)
       /\ last'.op = "register_trade" =>
            \A other \in GuardSymbols \ {last'.sym} :
                last_trade_ts'[other] = last_trade_ts[other]]_vars

\* A check of one symbol is allowed while the other symbol is in its cooldown
C15_Witness ==
    /\ last.op = "can_trade"
    /\ last.calls[1].allowed
    /\ \E other \in GuardSymbols \ {last.sym} : last_trade_ts[other] < CooldownSeconds

\* C16: the guard's cooldown timestamp of a symbol is recorded whenever an
\* entry order for the symbol is submitted to the exchange, whatever happens
\* afterwards, and is recorded by no step that submits no entry order.
C16_CooldownRecordedOnSubmit ==
    [][\A sym \in Symbols :
         LET submitted == \E i \in EntryOrders(last'.calls) : last'.calls[i].symbol = sym
         IN  /\ submitted => last_trade_ts'[sym] = 0
             /\ (last_trade_ts'[sym] = 0 /\ last_trade_ts[sym] # 0) => submitted]_vars

-----------------------------------------------------------------------------
(* PnLGuard on its own: arbitrary equity readings, resets and unhalts       *)

EquityReadings == {0, 900, 950, 970, 980, 981, 1000, 1020, 1050}

\* One call on the guard, with the equity reading of an update
PnlCall(op, equity) == [op |-> op, equity |-> equity]

\* PnLGuard.__init__: no peak, not halted
InitPnl ==
    /\ peak_equity = None
    /\ trading_halted = FALSE
    /\ current_equity = StartEquity
    /\ positions = [sym \in Symbols |-> 0]
    /\ active_trades = [sym \in Symbols |-> <<>>]
    /\ last_trade_time = [sym \in Symbols |-> GraceAge]
    /\ last_trade_ts = [sym \in Symbols |-> GraceAge]
    /\ adapter_symbol = SymbolList[1]
    /\ last_leverage = [sym \in Symbols |-> StartLeverage]
    /\ pc = "sym"
    /\ cur = 1
    /\ exPos = FlatAccount
    /\ exPlans = [sym \in Symbols |-> <<>>]
    /\ price = [sym \in Symbols |-> StartPrice]
    /\ exEquity = StartEquity
    /\ next_order_id = 0
    /\ faults = 0
    /\ moves = 0
    /\ admitted = <<>>
    /\ last = Observed("none", "none", "none", <<>>, TRUE)

PnlFrame ==
    UNCHANGED <<positions, active_trades, last_trade_time, last_trade_ts,
                adapter_symbol, last_leverage, pc, cur, exVars, envVars, admitted>>

\* update(equity) with a new reading of the account equity
PnlUpdate ==
    /\ \E equity \in EquityReadings :
       \E g \in {pnl_update(peak_equity, trading_halted, equity)} :
         /\ current_equity' = equity
         /\ peak_equity' = g.peak
         /\ trading_halted' = g.halted
         /\ last' = Observed("update", "all", IF g.raised THEN "raised" ELSE "done",
                             <<PnlCall("update", equity)>>, TRUE)
    /\ PnlFrame

\* reset()
PnlReset ==
    /\ \E g \in {pnl_reset(peak_equity, trading_halted)} :
         /\ peak_equity' = g.peak
         /\ trading_halted' = g.halted
    /\ last' = Observed("reset", "all", IF trading_halted THEN "was_halted" ELSE "done",
                        <<PnlCall("reset", 0)>>, TRUE)
    /\ UNCHANGED current_equity
    /\ PnlFrame

\* force_unhalt()
PnlForceUnhalt ==
    /\ \E g \in {pnl_force_unhalt(peak_equity, trading_halted)} :
         /\ peak_equity' = g.peak
         /\ trading_halted' = g.halted
    /\ last' = Observed("force_unhalt", "all",
                        IF trading_halted THEN "was_halted" ELSE "done",
                        <<PnlCall("force_unhalt", 0)>>, TRUE)
    /\ UNCHANGED current_equity
    /\ PnlFrame

NextPnl == PnlUpdate \/ PnlReset \/ PnlForceUnhalt

SpecPnl == InitPnl /\ [][NextPnl]_vars

\* C17: the guard tracks the running peak of the equity readings, and
\* can_trade() is false once the drawdown from the peak exceeds the configured
\* percentage; once halted it stays halted through every later update, also
\* when the equity recovers, until reset() or force_unhalt(); the first reading
\* after construction or a reset sets the peak and does not halt.
C17_PeakTrackedHaltSticky ==
    [][last'.op = "update" =>
         LET equity == last'.calls[1].equity
         IN  IF peak_equity = None
             THEN peak_equity' = equity /\ ~trading_halted'
             ELSE /\ peak_equity' = Max(peak_equity, equity)
                  /\ trading_halted => trading_halted'
                  /\ (/\ peak_equity' > 0
                      /\ (peak_equity' - equity) * 1000 > MaxDrawdownPermille * peak_equity')
                        => trading_halted']_vars

\* The guard is still halted after an update whose reading is back at the peak
C17_Witness ==
    /\ last.op = "update"
    /\ trading_halted
    /\ peak_equity # None
    /\ last.calls[1].equity >= peak_equity

\* C18: reset() clears both the peak equity and the halt flag; force_unhalt()
\* clears only the halt flag and leaves the peak equity as it was.
C18_ResetAndUnhaltFrames ==
    [][/\ last'.op = "reset" => (peak_equity' = None /\ ~trading_halted')
       /\ last'.op = "force_unhalt" => (peak_equity' = peak_equity /\ ~trading_halted')]_vars

\* A halted guard with a peak has been unhalted: the peak is still there
C18_Witness ==
    /\ last.op = "force_unhalt"
    /\ last.stage = "was_halted"
    /\ peak_equity # None
    /\ ~trading_halted

-----------------------------------------------------------------------------
(* TPSLCalculator on its own: arbitrary entries, directions, confidences,   *)
(* regimes and volatilities, and calculators built with other minimum       *)
(* risk-reward ratios                                                       *)

CalcPrices == {0, 1, 9000, 10000, 25000}
CalcSignals == {"LONG", "SHORT", "HOLD"}
CalcConfidences == {0, 50, 80, 100, 101}
CalcRegimes == {"TREND_UP", "RANGE", "VOLATILITY_COMPRESSION", "VOLATILE", "UNKNOWN"}
CalcAtrs == {0, 50, 1000, 50000, 120000}
CalcMinRrs == {MinRrRatio, 15, 20, 30}

\* One call of the calculator: its arguments and what it returned
CalcCall(op, min_rr_ratio, entry_price, signal, confidence, regime, volatility_atr, plan) ==
    [op |-> op, min_rr_ratio |-> min_rr_ratio, entry_price |-> entry_price,
     signal |-> signal, confidence |-> confidence, regime |-> regime,
     volatility_atr |-> volatility_atr, plan |-> plan]

InitCalc ==
    /\ current_equity = StartEquity
    /\ peak_equity = StartEquity
    /\ positions = [sym \in Symbols |-> 0]
    /\ active_trades = [sym \in Symbols |-> <<>>]
    /\ trading_halted = FALSE
    /\ last_trade_time = [sym \in Symbols |-> GraceAge]
    /\ last_trade_ts = [sym \in Symbols |-> GraceAge]
    /\ adapter_symbol = SymbolList[1]
    /\ last_leverage = [sym \in Symbols |-> StartLeverage]
    /\ pc = "sym"
    /\ cur = 1
    /\ exPos = FlatAccount
    /\ exPlans = [sym \in Symbols |-> <<>>]
    /\ price = [sym \in Symbols |-> StartPrice]
    /\ exEquity = StartEquity
    /\ next_order_id = 0
    /\ faults = 0
    /\ moves = 0
    /\ admitted = <<>>
    /\ last = Observed("none", "none", "none", <<>>, TRUE)

\* calculate_dynamic_tpsl of the bot's calculator, called once
CalcPlan ==
    /\ last.op = "none"
    /\ \E entry_price \in CalcPrices, signal \in CalcSignals, regime \in CalcRegimes :
       \E confidence \in CalcConfidences, volatility_atr \in CalcAtrs :
       \E plan \in {calculate_dynamic_tpsl(entry_price, signal, volatility_atr, regime,
                                           confidence)} :
         last' = Observed("calculate_dynamic_tpsl", "none",
                          IF plan.valid THEN "valid" ELSE "invalid",
                          <<CalcCall("calculate_dynamic_tpsl", MinRrRatio, entry_price,
                                     signal, confidence, regime, volatility_atr, plan)>>,
                          TRUE)
    /\ UNCHANGED <<botVars, exVars, envVars, admitted>>

\* calculate_tp_sl of a calculator built with min_rr_ratio, called once
CalcLevels ==
    /\ last.op = "none"
    /\ \E entry_price \in CalcPrices, signal \in CalcSignals, regime \in CalcRegimes :
       \E confidence \in CalcConfidences, volatility_atr \in CalcAtrs :
       \E min_rr_ratio \in CalcMinRrs :
       \E plan \in {calculate_tp_sl_with(min_rr_ratio, entry_price, signal, confidence,
                                         regime, volatility_atr)} :
         last' = Observed("calculate_tp_sl", "none",
                          IF plan.raised THEN "raised" ELSE "computed",
                          <<CalcCall("calculate_tp_sl", min_rr_ratio, entry_price,
                                     signal, confidence, regime, volatility_atr, plan)>>,
                          TRUE)
    /\ UNCHANGED <<botVars, exVars, envVars, admitted>>

\* execute_trade of a fresh bot, called once with arbitrary arguments
CalcEntry ==
    /\ last.op = "none"
    /\ \E p \in CalcPrices, direction \in CalcSignals, atr_raw \in AtrRaws :
       \E sym \in {SymbolList[1]} :
       \E plan \in {calculate_dynamic_tpsl(p, direction, calculate_atr(atr_raw, p),
                                           "TREND_UP", 80)} :
       \E E \in {execute_trade(EntryState(active_trades, exPlans), sym, direction, 80, p,
                               "TREND_UP", resolve_leverage(80, "TREND_UP"), 20,
                               atr_raw, EntryOk)} :
         /\ active_trades' = E.active_trades
         /\ positions' = E.positions
         /\ exPos' = E.exPos
         /\ exPlans' = E.exPlans
         /\ last_trade_ts' = E.last_trade_ts
         /\ last_leverage' = E.last_leverage
         /\ next_order_id' = E.next_order_id
         /\ adapter_symbol' = sym
         /\ last' = Observed("execute_trade", sym, E.stage,
                             <<CalcCall("calculate_dynamic_tpsl", MinRrRatio, p, direction,
                                        80, "TREND_UP", calculate_atr(atr_raw, p), plan)>>
                                \o E.calls,
                             TRUE)
    /\ UNCHANGED <<current_equity, peak_equity, trading_halted, last_trade_time, pc, cur,
                   price, exEquity, envVars, admitted>>

NextCalc == CalcPlan \/ CalcLevels \/ CalcEntry

SpecCalc == InitCalc /\ [][NextCalc]_vars

\* C19: every plan the calculator returns as valid has its stop and its target
\* on the correct side of the entry, after the rounding of the prices: for LONG
\* stop_loss < entry_price < take_profit, for SHORT
\* take_profit < entry_price < stop_loss.
C19_LevelsOnCorrectSide ==
    \A i \in DOMAIN last.calls :
        LET c == last.calls[i]
            entry4 == c.entry_price * 100
        IN  (c.op = "calculate_dynamic_tpsl" /\ c.plan.valid) =>
                IF c.signal = "LONG"
                THEN c.plan.stop_loss < entry4 /\ entry4 < c.plan.take_profit
                ELSE c.plan.take_profit < entry4 /\ entry4 < c.plan.stop_loss

\* A valid plan for a SHORT entry has been returned
C19_Witness ==
    /\ last.op = "calculate_dynamic_tpsl"
    /\ last.stage = "valid"
    /\ last.calls[1].signal = "SHORT"
    /\ last.calls[1].plan.take_profit < last.calls[1].plan.stop_loss

\* C20: every computed plan has risk_reward >= min_rr_ratio: where the target
\* distance over the stop distance is below the minimum the calculator widens
\* the target distance to stop_distance x min_rr_ratio, leaves the stop
\* distance as it is and does not reject the plan.
C20_RiskRewardAtLeastMinimum ==
    \A i \in DOMAIN last.calls :
        LET c == last.calls[i]
            entry4 == c.entry_price * 100
            \* what a calculator without a minimum computes from the same arguments
            plain == calculate_tp_sl_with(0, c.entry_price, c.signal, c.confidence,
                                          c.regime, c.volatility_atr)
        IN  c.op = "calculate_tp_sl" =>
              /\ c.plan.raised = plain.raised
              /\ ~c.plan.raised =>
                   /\ c.plan.rr_num * 10 >= c.min_rr_ratio * c.plan.rr_den
                   /\ c.plan.stop_loss = plain.stop_loss
                   /\ Abs(c.plan.take_profit - entry4) >= Abs(plain.take_profit - entry4)
                   /\ plain.rr_num * 10 < c.min_rr_ratio * plain.rr_den
                        => c.plan.rr_num * 10 = c.min_rr_ratio * c.plan.rr_den

\* A plan whose target was widened to the minimum risk-reward
C20_Witness ==
    /\ last.op = "calculate_tp_sl"
    /\ last.stage = "computed"
    /\ last.calls[1].plan.rr_num * 10 = last.calls[1].min_rr_ratio * last.calls[1].plan.rr_den
    /\ last.calls[1].confidence = 0
    /\ last.calls[1].min_rr_ratio > MinRrRatio


-----------------------------------------------------------------------------
(* Entries with invalid input *)

\* The requests execute_trade itself can send before its order
EntryRequests == {"set_leverage", "close_all_positions", "place_order"}

\* C30: an entry whose input is invalid (the volatility is unavailable or not
\* positive, or the calculator rejects the price or the direction) is rejected
\* before any exchange call: the step sends no close, leverage or order request
\* and leaves the trades and the positions as they were.
C30_InvalidInputSendsNothing ==
    [][(last'.op = "symbol" /\ last'.stage \in {"atr_invalid", "tpsl_invalid"})
          => /\ \A i \in DOMAIN last'.calls : last'.calls[i].op \notin EntryRequests
             /\ positions' = positions
             /\ exPos' = exPos
             /\ last_leverage' = last_leverage]_vars


-----------------------------------------------------------------------------
(* The AI log of an entry *)

\* The failed remote submissions among the calls of a step
FailedLogs(calls) ==
    {i \in DOMAIN calls : calls[i].op = "upload_ai_log" /\ ~calls[i].accepted}

\* The facts execute_trade records for an entry on sym whose order was `order`
EntryRecorded(sym, order) ==
    /\ active_trades'[sym] # <<>>
    /\ LET trade == active_trades'[sym][Len(active_trades'[sym])]
       IN  /\ trade.order_id = next_order_id'
           /\ trade.size = order.size
           /\ trade.direction = order.side
    /\ positions'[sym] = IF order.side = "LONG" THEN order.size ELSE -order.size
    /\ last_trade_ts'[sym] = 0
    /\ last_trade_time'[sym] = 0
    /\ next_order_id' = next_order_id + 1

\* C29: a failed submission of the AI log does not undo the entry.  In every
\* step whose entry order and target placement were accepted, the trade is in
\* the active set and the position and the cooldown are recorded, the same
\* whether the submission succeeded or failed, and the line of the local log
\* was written before the remote submission.
C29_LogFailureKeepsTrade ==
    [][\A i \in DOMAIN last'.calls :
          last'.calls[i].op = "upload_ai_log"
             => /\ last'.stage = "entered"
                /\ i > 3
                /\ last'.calls[i - 1] = LocalLogCall(last'.sym)
                /\ last'.calls[i - 2].op = "place_tp_sl_order"
                /\ last'.calls[i - 2].accepted
                /\ last'.calls[i - 3].op = "place_order"
                /\ last'.calls[i - 3].accepted
                /\ EntryRecorded(last'.sym, last'.calls[i - 3])]_vars

\* An entry has been made whose log submission failed after all its attempts
C29_Witness ==
    /\ last.stage = "entered"
    /\ FailedLogs(last.calls) # {}
    /\ \A i \in FailedLogs(last.calls) : last.calls[i].size = MaxRetries
    /\ positions[last.sym] # 0


-----------------------------------------------------------------------------
(* AILogAdapter.submit_log on its own: one submission, the answers of the     *)
(* endpoint drawn for one POST more than the adapter may send                 *)

LogAnswers == [1..(MaxRetries + 1) -> Outcomes]

\* One call of submit_log: the mode, the answers on offer and what it returned
LogCall(dry_run, answers, result) ==
    [op |-> "submit_log", dry_run |-> dry_run, answers |-> answers, result |-> result]

InitLog == InitCalc

\* submit_log in live mode, called once
SubmitLog ==
    /\ last.op = "none"
    /\ \E answers \in LogAnswers :
       \E result \in {submit_log(FALSE, answers)} :
         last' = Observed("submit_log", "none",
                          IF result.success THEN "submitted" ELSE "failed",
                          <<LocalLogCall("none"), LogCall(FALSE, answers, result)>>,
                          result.success)
    /\ UNCHANGED <<botVars, exVars, envVars, admitted>>

\* submit_log in dry-run mode, called once
SubmitLogDryRun ==
    /\ last.op = "none"
    /\ \E answers \in LogAnswers :
       \E result \in {submit_log(TRUE, answers)} :
         last' = Observed("submit_log", "none", "simulated",
                          <<LocalLogCall("none"), LogCall(TRUE, answers, result)>>,
                          TRUE)
    /\ UNCHANGED <<botVars, exVars, envVars, admitted>>

NextLog == SubmitLog \/ SubmitLogDryRun

SpecLog == InitLog /\ [][NextLog]_vars

\* C28: submit_log makes at most MAX_RETRIES remote attempts and stops at the
\* first that succeeds; between failed attempts it sleeps a delay that grows and
\* is bounded; after the last failed attempt it returns success = false with an
\* error, for an error response as for an exception.
C28_BoundedRetries ==
    \A i \in DOMAIN last.calls :
       LET c == last.calls[i]
       IN  c.op = "submit_log" =>
             LET r == c.result
                 failed(k) == c.answers[k] # "ok"
             IN  /\ r.attempts <= MaxRetries
                 /\ \A k \in 1..r.attempts : k < r.attempts => failed(k)
                 /\ ~c.dry_run =>
                      /\ r.attempts >= 1
                      /\ r.success <=> ~failed(r.attempts)
                      /\ r.success <=> \E k \in 1..MaxRetries : ~failed(k)
                      /\ ~r.success => /\ r.attempts = MaxRetries
                                       /\ r.error = c.answers[MaxRetries]
                                       /\ r.error \in {"rejected", "raises"}
                      /\ Len(r.slept) = r.attempts - 1
                      /\ \A k \in DOMAIN r.slept :
                           /\ r.slept[k] = RetryDelay * k
                           /\ r.slept[k] > 0
                           /\ r.slept[k] <= RetryDelay * (MaxRetries - 1)
                           /\ k > 1 => r.slept[k] > r.slept[k - 1]

\* A submission has failed on every attempt, the last by an exception, though
\* one more POST would have been answered
C28_Witness ==
    /\ last.op = "submit_log"
    /\ last.stage = "failed"
    /\ \E i \in DOMAIN last.calls :
         /\ last.calls[i].op = "submit_log"
         /\ last.calls[i].answers = <<"rejected", "rejected", "raises", "ok">>
         /\ last.calls[i].result.attempts = MaxRetries
         /\ last.calls[i].result.slept = <<2, 4>>


\* The calls of the calculator among the calls of a step
CalculatorOps == {"calculate_dynamic_tpsl", "calculate_tp_sl"}

\* The calculator refused the call: calculate_tp_sl raised, or
\* calculate_dynamic_tpsl returned a plan that is not valid
Refused(c) ==
    IF c.op = "calculate_tp_sl" THEN c.plan.raised ELSE ~c.plan.valid

\* C21: the calculator raises or returns an invalid plan for an entry price or
\* a volatility that is not positive and for a direction other than LONG and
\* SHORT; a plan it returns as valid has a take_profit and a stop_loss; and
\* execute_trade submits no entry order when the plan is invalid.
C21_InvalidInputNoPlanNoOrder ==
    /\ \A i \in DOMAIN last.calls :
         LET c == last.calls[i]
         IN  c.op \in CalculatorOps =>
               /\ (\/ c.entry_price <= 0
                   \/ c.volatility_atr <= 0
                   \/ c.signal \notin {"LONG", "SHORT"}) => Refused(c)
               /\ ~Refused(c) =>
                    /\ {"take_profit", "stop_loss"} \subseteq DOMAIN c.plan
                    /\ c.plan.take_profit # None
                    /\ c.plan.stop_loss # None
    /\ (last.op = "execute_trade" /\ Refused(last.calls[1]))
          => /\ last.stage \in {"atr_invalid", "tpsl_invalid"}
             /\ \A i \in DOMAIN last.calls : last.calls[i].op # "place_order"
             /\ next_order_id = 0
             /\ exPos = FlatAccount
             /\ active_trades = [sym \in Symbols |-> <<>>]

\* execute_trade has returned on a plan the calculator marked invalid, the
\* volatility being positive
C21_Witness ==
    /\ last.op = "execute_trade"
    /\ last.stage = "tpsl_invalid"
    /\ last.calls[1].volatility_atr > 0
    /\ ~last.calls[1].plan.valid


\* The call returned levels
Computed(c) ==
    IF c.op = "calculate_tp_sl" THEN ~c.plan.raised ELSE "take_profit" \in DOMAIN c.plan

\* The example of the calculator: entry 100, LONG, raw volatility 0.5, RANGE
ExampleCall(c) ==
    /\ c.op \in CalculatorOps
    /\ c.min_rr_ratio = MinRrRatio
    /\ c.entry_price = 10000 /\ c.signal = "LONG"
    /\ c.volatility_atr = 50000 /\ c.regime = "RANGE"

\* stop 97.6, target 104.2, risk_reward 1.75
ExampleLevels(c) ==
    /\ Computed(c)
    /\ c.plan.stop_loss = 976000
    /\ c.plan.take_profit = 1042000
    /\ c.plan.rr_num * 100 = 175 * c.plan.rr_den

-----------------------------------------------------------------------------
(* Tier upgrades *)

\* ROI thresholds in percent and the profit each tier locks, in hundredths of a
\* percent, by tier
TierThresholds == <<2, 5, 10>>
TierLocks == <<10, 100, 300>>

\* The tier of the ROI a trade has at price p: the number of thresholds reached
RoiTier(trade, p) ==
    LET gain == IF trade.direction = "LONG" THEN p - trade.entry_price
                ELSE trade.entry_price - p
    IN  Cardinality({k \in DOMAIN TierThresholds :
                       gain * 100 >= TierThresholds[k] * trade.entry_price})

\* The trades of a symbol that a tick at p takes to a higher tier, in order
UpgradeIdx(trades, p) ==
    LET RECURSIVE From(_)
        From(i) == IF i > Len(trades) THEN <<>>
                   ELSE IF RoiTier(trades[i], p) > Get(trades[i], "profit_lock_tier", 0)
                        THEN <<i>> \o From(i + 1)
                        ELSE From(i + 1)
    IN  From(1)

\* stop is entry x (1 + lock%) for a LONG, entry x (1 - lock%) for a SHORT,
\* rounded to the price step
LockedStop(trade, tier, stop, price_step) ==
    LET sgn == IF trade.direction = "LONG" THEN 1 ELSE -1
        exact == trade.entry_price * (10000 + sgn * TierLocks[tier])   \* 1e-4 cents
    IN  /\ stop % price_step = 0
        /\ 2 * Abs(stop * 10000 - exact) <= price_step * 10000

\* C23: when the ROI of a trade reaches a tier above the trade's tier and the
\* stop placement succeeds, the trade's tier becomes the tier of that ROI and
\* its stop entry x (1 + lock%) for a LONG, entry x (1 - lock%) for a SHORT,
\* rounded to the price step, the lock growing with the tier; a LONG entered
\* at 100 gets tier 1 and stop 100.1 at 102.5, tier 2 and stop 101.0 at 106.
C23_TierUpgradeSetsLock ==
    [][last'.op = "manage" =>
         LET sym == last'.sym
             p == price'[sym]
             idx == UpgradeIdx(active_trades[sym], p)
         IN  /\ Len(last'.calls) <= Len(idx)
             /\ \A k \in DOMAIN TierLocks : k > 1 => TierLocks[k] > TierLocks[k - 1]
             /\ \A j \in DOMAIN last'.calls :
                  LET old == active_trades[sym][idx[j]]
                      new == active_trades'[sym][idx[j]]
                      tier == RoiTier(old, p)
                  IN  /\ last'.calls[j].planType = "loss_plan"
                      /\ LockedStop(old, tier, last'.calls[j].triggerPrice,
                                    symbol_rules(sym).price_step)
                      /\ IF last'.calls[j].accepted
                         THEN /\ new.profit_lock_tier = tier
                              /\ new.stop_loss = last'.calls[j].triggerPrice
                              /\ (old.direction = "LONG" /\ old.entry_price = 10000
                                    /\ p = 10250)
                                   => (tier = 1 /\ new.stop_loss = 10010)
                              /\ (old.direction = "LONG" /\ old.entry_price = 10000
                                    /\ p = 10600)
                                   => (tier = 2 /\ new.stop_loss = 10100)
                         ELSE new = old]_vars

\* A LONG entered at 100 has been taken to tier 2 at 106 by an accepted
\* placement, its stop at 101.0
C23_Witness ==
    /\ last.op = "manage"
    /\ \E i \in DOMAIN last.calls :
         /\ last.calls[i].accepted
         /\ last.calls[i].triggerPrice = 10100
    /\ \E i \in DOMAIN active_trades[last.sym] :
         LET t == active_trades[last.sym][i]
         IN  /\ t.direction = "LONG" /\ t.entry_price = 10000
             /\ price[last.sym] = 10600
             /\ Get(t, "profit_lock_tier", 0) = 2
             /\ t.stop_loss = 10100


\* C25: a profit-lock tier upgrade is applied only to a trade whose stop has
\* been placed (sl_placed true: the trade is past PENDING_PROTECTION), the
\* order of a symbol's steps being entry, stop placement, tier management.
C25_UpgradeOnlyOnceProtected ==
    [][\A sym \in Symbols :
         \A i \in DOMAIN active_trades[sym] \cap DOMAIN active_trades'[sym] :
            LET old == active_trades[sym][i]
                new == active_trades'[sym][i]
            IN  Get(new, "profit_lock_tier", 0) > Get(old, "profit_lock_tier", 0)
                   => Get(old, "sl_placed", FALSE)]_vars


-----------------------------------------------------------------------------
(* The position query of refresh_account_state *)

\* C27: when the position query of refresh_account_state is answered with an
\* error or raises, the cached position of every symbol stays as it was.
C27_FailedQueryKeepsPositions ==
    [][(/\ last'.op = "heartbeat"
        /\ \E i \in DOMAIN last'.calls :
             /\ last'.calls[i].op = "get_positions"
             /\ ~last'.calls[i].accepted)
          => positions' = positions]_vars


\* The exchange reports no position for sym
FlatOn(sym) == position_rows(exPos, sym) = <<>>

\* C24: once the exchange reports the position of a symbol at zero, and for as
\* long as it does, the trades of the symbol are eventually removed from the
\* active set.
C24_ClosedTradesRemoved ==
    \A sym \in Symbols :
       (FlatOn(sym) /\ active_trades[sym] # <<>>)
          ~> (active_trades[sym] = <<>> \/ ~FlatOn(sym))


-----------------------------------------------------------------------------
(* The loop under an interrupt: run() leaves its loop on KeyboardInterrupt,   *)
(* which may arrive while the loop sleeps or inside execute_trade, before the *)
(* entry order, after it, or after the target placement                       *)

InterruptPoints == {"before_order", "after_order", "after_target"}

\* An iteration whose execute_trade is interrupted
InterruptedStep ==
    /\ SymbolStepAt(Reliable, InterruptPoints)
    /\ pc' = "stopped"

\* The interrupt arrives in time.sleep(10)
InterruptSleep ==
    /\ pc = "sleep"
    /\ pc' = "stopped"
    /\ last' = Observed("interrupt", "all", "sleeping", <<>>, TRUE)
    /\ UNCHANGED <<positions, active_trades, current_equity, peak_equity, trading_halted,
                   last_trade_time, last_trade_ts, adapter_symbol, last_leverage, cur,
                   exVars, envVars, admitted>>

NextStop ==
    \/ BotNext
    \/ PriceMove
    \/ InterruptedStep
    \/ InterruptSleep

SpecStop == Init /\ [][NextStop]_vars

\* C26: when the loop has stopped on an interrupt that arrived inside an entry
\* whose order was accepted, the entry is whole (the trade is registered, its
\* position recorded and its protective order placed) or the position has been
\* closed.
C26_NoHalfSubmittedEntry ==
    (/\ pc = "stopped"
     /\ last.stage = "interrupted"
     /\ \E i \in DOMAIN last.calls :
          last.calls[i].op = "place_order" /\ last.calls[i].accepted)
       => \/ FlatOn(last.sym)
          \/ /\ \E i \in DOMAIN active_trades[last.sym] :
                  active_trades[last.sym][i].order_id = next_order_id
             /\ positions[last.sym] # 0
             /\ \E i \in DOMAIN last.calls :
                  last.calls[i].op = "place_tp_sl_order" /\ last.calls[i].accepted


-----------------------------------------------------------------------------
(* The admission rules of can_open_trade *)

\* The most trades the policy allows on one symbol
TradeLimit == 2

\* The most trades held on the symbol when can_open_trade is called
MaxHeld == 3

AdmitPrices == {9400, 10000, 10600}
AdmitConfidences == {65, 70, 80}
AdmitRegimes == {"TREND_UP", "RANGE"}
AdmitAges == {TickAge, DayAge}

\* A trade execute_trade registered at StartPrice some time ago
entered_trade(sym, direction, age) ==
    [trade_payload(sym, "1", direction, 1000, StartPrice,
                   IF direction = "LONG" THEN 9800 ELSE 10200,
                   IF direction = "LONG" THEN 10400 ELSE 9600, 0)
        EXCEPT !.entry_time = age]

\* The trade lists of one symbol: the trades execute_trade registered, behind
\* the legacy trade of sync_state if the account was held at start-up
EnteredLists ==
    UNION {[1..n -> {entered_trade(SymbolList[1], d, a) : d \in Sides, a \in AdmitAges}] :
              n \in 0..MaxHeld}

HeldLists ==
    EnteredLists
    \cup {<<legacy_trade(amt)>> \o ts :
             amt \in {-1000, 1000}, ts \in {t \in EnteredLists : Len(t) < MaxHeld}}

\* The net position the trades of a list add up to
RECURSIVE NetOf(_)
NetOf(ts) ==
    IF ts = <<>> THEN 0
    ELSE (IF Head(ts).direction = "LONG" THEN Head(ts).size ELSE -Head(ts).size)
         + NetOf(Tail(ts))

\* One call of can_open_trade: its arguments, the trades it saw after its
\* cleanup, and what it returned
AdmitCall(sym, direction, trade_class, risk_pct, p, confidence, active, result) ==
    [op |-> "can_open_trade", symbol |-> sym, direction |-> direction,
     trade_class |-> trade_class, risk_pct |-> risk_pct, price |-> p,
     confidence |-> confidence, active |-> active, result |-> result]

InitAdmit ==
    /\ \E ts \in HeldLists :
         /\ active_trades = [sym \in Symbols |-> ts]
         /\ positions = [sym \in Symbols |-> NetOf(ts)]
    /\ current_equity = StartEquity
    /\ peak_equity = StartEquity
    /\ trading_halted = FALSE
    /\ last_trade_time = [sym \in Symbols |-> GraceAge]
    /\ last_trade_ts = [sym \in Symbols |-> GraceAge]
    /\ adapter_symbol = SymbolList[1]
    /\ last_leverage = [sym \in Symbols |-> StartLeverage]
    /\ pc = "sym"
    /\ cur = 1
    /\ exPos = FlatAccount
    /\ exPlans = [sym \in Symbols |-> <<>>]
    /\ price = [sym \in Symbols |-> StartPrice]
    /\ exEquity = StartEquity
    /\ next_order_id = 0
    /\ faults = 0
    /\ moves = 0
    /\ admitted = <<>>
    /\ last = Observed("none", "none", "none", <<>>, TRUE)

\* can_open_trade, called once as the main loop calls it: the class and the
\* risk come from the signal's regime and confidence
AdmitCheck ==
    /\ last.op = "none"
    /\ \E sym \in {SymbolList[1]}, direction \in Sides, p \in AdmitPrices :
       \E confidence \in AdmitConfidences, regime \in AdmitRegimes :
       \E cleaned \in {cleanup_inactive_trades(active_trades, positions)} :
       \E trade_class \in {determine_trade_class(regime, confidence)} :
       \E risk_pct \in {get_risk_pct(regime, confidence)} :
       \E result \in {can_open_trade(cleaned, positions, sym, direction, trade_class,
                                     risk_pct, p, confidence)} :
         /\ active_trades' = cleaned
         /\ last' = Observed("can_open_trade", sym,
                             IF result THEN "admitted" ELSE "refused",
                             <<AdmitCall(sym, direction, trade_class, risk_pct, p,
                                         confidence, cleaned[sym], result)>>,
                             TRUE)
    /\ UNCHANGED <<positions, current_equity, peak_equity, trading_halted,
                   last_trade_time, last_trade_ts, adapter_symbol, last_leverage, pc, cur,
                   exVars, envVars, admitted>>

NextAdmit == AdmitCheck

SpecAdmit == InitAdmit /\ [][NextAdmit]_vars

\* The calls of can_open_trade in last.calls
AdmitCalls == {i \in DOMAIN last.calls : last.calls[i].op = "can_open_trade"}

\* Some trade of the list is older than 24 hours
AgedTrade(active) ==
    \E i \in DOMAIN active : Get(active[i], "entry_time", 0) > DaySeconds

\* C33: can_open_trade never admits a SCALP-class entry for a symbol that
\* already has an open trade.
C33_ScalpNeverAddsToOpenTrade ==
    \A i \in AdmitCalls :
        LET c == last.calls[i]
        IN  (c.trade_class = "SCALP" /\ c.active # <<>>) => ~c.result

\* C33 (amended): a SCALP-class entry for a symbol that already has an open
\* trade is admitted only if one of the symbol's trades is older than 24 hours.
C33_ScalpAddsOnlyToAgedTrade ==
    \A i \in AdmitCalls :
        LET c == last.calls[i]
        IN  (c.trade_class = "SCALP" /\ c.active # <<>> /\ ~AgedTrade(c.active))
                => ~c.result

\* A SCALP-class entry was refused on a symbol with a young open trade
C33_Witness ==
    \E i \in AdmitCalls :
        LET c == last.calls[i]
        IN  /\ c.trade_class = "SCALP"
            /\ c.active # <<>>
            /\ ~AgedTrade(c.active)
            /\ ~c.result

\* The rules of can_open_trade that would refuse the call but for the age of
\* the symbol's trades: the scalp cap, the trend cap and the pyramid rule
ScalpCapHit(c) == c.trade_class = "SCALP" /\ Len(c.active) > 0

TrendCapHit(c) == Len(c.active) >= TradeLimit

PyramidRuleHit(c) ==
    /\ c.active # <<>>
    /\ LET held == c.active[Len(c.active)]
           last_entry == IF Get(held, "entry_price", None) # None
                         THEN held.entry_price ELSE c.price
       IN  /\ (IF c.direction = "LONG" THEN c.price - last_entry
               ELSE last_entry - c.price) <= 0
           /\ c.confidence < 70

\* C35: when one of the symbol's open trades is older than 24 hours,
\* can_open_trade admits the entry whatever the scalp cap, the trend cap and
\* the pyramid rule say; only the portfolio risk cap can still refuse it.
C35_AgedPositionExempt ==
    \A i \in AdmitCalls :
        LET c == last.calls[i]
        IN  AgedTrade(c.active)
               => c.result = ~(current_portfolio_risk(active_trades) + c.risk_pct
                                   > PortfolioRiskCap)

\* An entry that all three rules would refuse was admitted because a trade of
\* the symbol is older than 24 hours
C35_Witness ==
    \E i \in AdmitCalls :
        LET c == last.calls[i]
        IN  /\ AgedTrade(c.active)
            /\ ScalpCapHit(c)
            /\ TrendCapHit(c)
            /\ PyramidRuleHit(c)
            /\ c.result

\* The trades of the list that count as trend trades
TrendTradesOf(active) ==
    LET NotScalp(t) == Get(t, "trade_class", "None") # "SCALP"
    IN  SelectSeq(active, NotScalp)

\* The price has moved in favour of the held trade since its entry
InProfit(held, p) ==
    /\ Get(held, "entry_price", None) # None
    /\ IF held.direction = "LONG" THEN p > held.entry_price ELSE p < held.entry_price

\* C34: with a trend trade held on the symbol, none of the symbol's trades
\* older than 24 hours, can_open_trade admits a further entry only when fewer
\* than two trend trades are open and either the price has moved in favour of
\* the last of them since its entry or the confidence reaches the override
\* threshold of 0.70.
C34_PyramidOnlyInProfit ==
    \A i \in AdmitCalls :
        LET c == last.calls[i]
            trend_trades == TrendTradesOf(c.active)
        IN  (trend_trades # <<>> /\ ~AgedTrade(c.active) /\ c.result)
               => /\ Len(trend_trades) < TradeLimit
                  /\ \/ InProfit(trend_trades[Len(trend_trades)], c.price)
                     \/ c.confidence >= 70

\* A sleep at whose end time.time() is more than 24 hours further on (a
\* suspended host, or blocking calls): every trade on the books is now more
\* than 24 hours old
DaySleep ==
    /\ pc = "sleep"
    /\ last_trade_time' = [sym \in Symbols |-> ElapseCooldown(last_trade_time[sym], "day")]
    /\ last_trade_ts' = [sym \in Symbols |-> ElapseCooldown(last_trade_ts[sym], "day")]
    /\ active_trades' = [sym \in Symbols |-> ElapseTrades(active_trades[sym], "day")]
    /\ pc' = "top"
    /\ last' = Observed("sleep", "all", "day", <<>>, TRUE)
    /\ UNCHANGED <<positions, current_equity, peak_equity, trading_halted,
                   adapter_symbol, last_leverage, cur, exVars, envVars, admitted>>

\* The bot started on an account that may already hold positions, running
\* for days with an exchange that answers every request
NextDays == BotNext \/ DaySleep

SpecDays == InitStart /\ [][NextDays]_vars

\* C32: in every reachable state the active set holds at most two trades for
\* any one symbol.
C32_TradesPerSymbolBounded ==
    \A sym \in Symbols : Len(active_trades[sym]) <= TradeLimit


-----------------------------------------------------------------------------
(* Entries on a symbol that already holds trades *)

Opposite(side) == IF side = "LONG" THEN "SHORT" ELSE "LONG"

\* The entry orders of the calls that the exchange accepted
AcceptedEntries(calls) ==
    {i \in DOMAIN calls : calls[i].op = "place_order" /\ calls[i].accepted}

\* C31: when a step enters a trade against a position held in the opposite
\* direction, the held position is closed and the new one opened in that same
\* step; and a step that closes the held position for a new entry goes on to
\* submit the entry order.
C31_OpposingEntryFlips ==
    [][last'.op = "symbol"
          => /\ last'.stage = "entered"
                => \A i \in AcceptedEntries(last'.calls) :
                      LET c == last'.calls[i]
                      IN  exPos[c.symbol][Opposite(c.side)].size > 0
                             => /\ exPos'[c.symbol][Opposite(c.side)].size = 0
                                /\ exPos'[c.symbol][c.side].size > 0
             /\ \A i \in DOMAIN last'.calls :
                  (/\ last'.calls[i].op = "close_all_positions"
                   /\ \A j \in 1..(i - 1) : last'.calls[j].op # "place_order")
                     => \E j \in DOMAIN last'.calls :
                           j > i /\ last'.calls[j].op = "place_order"]_vars


-----------------------------------------------------------------------------
(* The profit lock and the reconciliation together: registered trades are   *)
(* managed at arbitrary prices, and check_and_fix_plans passes over the     *)
(* account in between, reading the plan orders in either format             *)

Listings == {"ok", "bare"}

\* The plan query of a pass: `listed` is the answer it got
ListCall(sym, answer) ==
    [op |-> "currentPlan", symbol |-> sym, planType |-> "none", triggerPrice |-> 0,
     size |-> 0, side |-> "none", accepted |-> answer \in Listings, listed |-> answer]

\* One pass of check_and_fix_plans with the position query, the ticker query
\* and the placements answered; the plan query is answered in either format or
\* with an error body
LockRecon ==
    /\ \E a \in [plans : Listings \cup {"rejected"}, ticker : {"ok"}, sl : {"ok"},
                 tp : {"ok"}] :
       \E R \in {check_and_fix_plans(exPos, exPlans, price, adapter_symbol, "ok",
                                     [sym \in Symbols |-> a])} :
         /\ exPlans' = R.plans
         /\ adapter_symbol' = R.adapter_symbol
         /\ last' = Observed("recon", "all", IF R.aborted THEN "aborted" ELSE "done",
                             <<ListCall(SymbolList[1], a.plans)>> \o R.calls,
                             a.plans \in Listings /\ a.ticker = "ok"
                                /\ a.sl = "ok" /\ a.tp = "ok")
    /\ UNCHANGED <<positions, active_trades, current_equity, peak_equity, trading_halted,
                   last_trade_time, last_trade_ts, last_leverage, pc, cur, exPos, price,
                   exEquity, next_order_id, envVars, admitted>>

NextLock == ManageTick \/ LockRecon

SpecLock == InitManage /\ [][NextLock]_vars


\* The listing the pass of last' read for its symbol
ListedTo(calls, plans) == listing(plans, calls[1].listed)

\* An order on the losing (winning) side of the entry price of the position
LosingSide(p, pos_data) ==
    \/ pos_data.side = "LONG" /\ p.triggerPrice < pos_data.entry
    \/ pos_data.side = "SHORT" /\ p.triggerPrice > pos_data.entry

WinningSide(p, pos_data) ==
    \/ pos_data.side = "LONG" /\ p.triggerPrice > pos_data.entry
    \/ pos_data.side = "SHORT" /\ p.triggerPrice < pos_data.entry

\* The claimed classification: by the side of the position and the side of the
\* entry price the trigger is on
StopByTrigger(p, pos_data) == plan_is_live(p) /\ LosingSide(p, pos_data)
TargetByTrigger(p, pos_data) == plan_is_live(p) /\ WinningSide(p, pos_data)

\* The classification with the plan type first: an order listed as loss_plan
\* is a stop and one listed as profit_plan a target wherever its trigger is;
\* only an order listed by its close type is classified by its trigger
StopByType(p, pos_data) ==
    /\ plan_is_live(p)
    /\ IF p.planType \in {"loss_plan", "profit_plan"} THEN p.planType = "loss_plan"
       ELSE p.type \in {"CLOSE_LONG", "CLOSE_SHORT"} /\ LosingSide(p, pos_data)

TargetByType(p, pos_data) ==
    /\ plan_is_live(p)
    /\ IF p.planType \in {"loss_plan", "profit_plan"} THEN p.planType = "profit_plan"
       ELSE p.type \in {"CLOSE_LONG", "CLOSE_SHORT"} /\ WinningSide(p, pos_data)

\* A pass that read the plan orders of the position of sym and ran to its end
\* with every request answered places the stop exactly if no listed order is a
\* stop, and the target exactly if no listed order is a target
LegsSuppress(IsStop(_, _), IsTarget(_, _)) ==
    (last'.op = "recon" /\ last'.answered /\ last'.stage = "done")
          => \A sym \in Symbols :
               LET pm == active_pos_map(exPos)[sym]
                   listed == ListedTo(last'.calls, exPlans[sym])
                   stops == {i \in DOMAIN listed : IsStop(listed[i], pm[1])}
                   targets == {i \in DOMAIN listed : IsTarget(listed[i], pm[1])}
               IN  pm # <<>>
                      => /\ (stops = {}) <=> PlacementsOf(last'.calls, sym, "loss_plan") # <<>>
                         /\ (targets = {})
                               <=> PlacementsOf(last'.calls, sym, "profit_plan") # <<>>

ExchangeStops(plans, sym, side) ==
    {i \in DOMAIN plans[sym] :
        /\ plan_is_live(plans[sym][i])
        /\ plans[sym][i].planType = "loss_plan"
        /\ plans[sym][i].side = side}

\* Stop a is at least as favourable to the side as stop b
AsFavourable(side, a, b) == IF side = "LONG" THEN a >= b ELSE a <= b

\* The exchange holds a stop for the side that is at least as favourable as
\* the trigger price
StopAtLeast(plans, sym, side, trigger) ==
    \E i \in ExchangeStops(plans, sym, side) :
        AsFavourable(side, plans[sym][i].triggerPrice, trigger)

ChangedTrades(sym) ==
    {i \in DOMAIN active_trades[sym] : active_trades'[sym][i] # active_trades[sym][i]}

-----------------------------------------------------------------------------
(* WeexExecutionAdapter.place_order on its own: arbitrary directions, sizes, *)
(* limit prices and TP/SL payloads                                          *)

OrderDirections == {"LONG", "SHORT", "HOLD"}
OrderSizes == {-5, 0, 1000}
OrderPrices == {None, 10010}
OrderTargets == {None, -5, 0, 9600, 10400}
OrderStops == {None, 0, 9800, 10200}
OrderEntries == {None, 10000}
OrderRrs == {None, 5, 10, 20}       \* risk_reward in tenths

\* The payloads: none, or the keys take_profit, stop_loss, entry_price and
\* risk_reward with the short keys tp and sl beside them
OrderPayloads ==
    {<<>>} \cup
    {<<t>> : t \in [take_profit : OrderTargets, stop_loss : OrderStops,
                    tp : {None, 10400}, sl : {None, 9800},
                    entry_price : OrderEntries, risk_reward : OrderRrs]}

\* Python's `a or b` on prices: b when a is None or 0
Or(a, b) == IF a = None \/ a = 0 THEN b ELSE a

\* place_order with one check dropped: a risk_reward below 1.0 passes
place_order_any_rr(direction, size, limit_price, tpsl) ==
    LET tp == Or(tpsl[1].take_profit, tpsl[1].tp)
        sl == Or(tpsl[1].stop_loss, tpsl[1].sl)
        entry_price == tpsl[1].entry_price
    IN  IF direction \notin {"LONG", "SHORT"} THEN "rejected"
        ELSE IF size <= 0 THEN "rejected"
        ELSE IF limit_price = None THEN "rejected"
        ELSE IF tpsl = <<>> THEN "rejected"
        ELSE IF tp = None \/ sl = None THEN "rejected"
        ELSE IF tp <= 0 \/ sl <= 0 THEN "rejected"
        ELSE IF entry_price # None /\ direction = "LONG" /\ sl >= entry_price
             THEN "rejected"
        ELSE IF entry_price # None /\ direction = "SHORT" /\ sl <= entry_price
             THEN "rejected"
        ELSE "sent"

\* WeexExecutionAdapter.place_order up to its request: "rejected" when a check
\* returns the rejected status, "sent" when the body goes to _post.  tpsl is
\* <<>> for None and <<payload>> otherwise.
place_order(direction, size, limit_price, tpsl) ==
    LET tp == Or(tpsl[1].take_profit, tpsl[1].tp)
        sl == Or(tpsl[1].stop_loss, tpsl[1].sl)
        entry_price == tpsl[1].entry_price
        rr == tpsl[1].risk_reward
    IN  IF direction \notin {"LONG", "SHORT"} THEN "rejected"
        ELSE IF size <= 0 THEN "rejected"
        ELSE IF limit_price = None THEN "rejected"
        ELSE IF tpsl = <<>> THEN "rejected"
        ELSE IF tp = None \/ sl = None THEN "rejected"
        ELSE IF tp <= 0 \/ sl <= 0 THEN "rejected"
        ELSE IF entry_price # None /\ direction = "LONG" /\ sl >= entry_price
             THEN "rejected"
        ELSE IF entry_price # None /\ direction = "SHORT" /\ sl <= entry_price
             THEN "rejected"
        ELSE IF rr # None /\ rr < 10 THEN "rejected"
        ELSE "sent"

\* One call of place_order: its arguments and what became of it
PlaceCall(sym, direction, size, limit_price, tpsl, result) ==
    [op |-> "adapter.place_order", symbol |-> sym, direction |-> direction,
     size |-> size, price |-> limit_price, tpsl |-> tpsl, result |-> result]

\* place_order of an adapter set to the first symbol, called once
PlaceOrder ==
    /\ last.op = "none"
    /\ \E direction \in OrderDirections, size \in OrderSizes :
       \E limit_price \in OrderPrices, tpsl \in OrderPayloads :
       \E result \in {place_order(direction, size, limit_price, tpsl)} :
         last' = Observed("adapter.place_order", adapter_symbol, result,
                          <<PlaceCall(adapter_symbol, direction, size, limit_price,
                                      tpsl, result)>>,
                          TRUE)
    /\ UNCHANGED <<botVars, exVars, envVars, admitted>>

NextOrder == PlaceOrder

SpecOrder == InitCalc /\ [][NextOrder]_vars

\* The calls of place_order in last.calls
PlaceCalls == {i \in DOMAIN last.calls : last.calls[i].op = "adapter.place_order"}

\* What the checks of the claim ask of a call, but for the side of the stop
WellFormedOrder(c) ==
    /\ c.direction \in {"LONG", "SHORT"}
    /\ c.size > 0
    /\ c.price # None
    /\ c.tpsl # <<>>
    /\ LET tp == Or(c.tpsl[1].take_profit, c.tpsl[1].tp)
           sl == Or(c.tpsl[1].stop_loss, c.tpsl[1].sl)
       IN  /\ tp # None /\ sl # None
           /\ tp > 0 /\ sl > 0
    /\ c.tpsl[1].risk_reward # None => c.tpsl[1].risk_reward >= 10

\* The stop of the payload is on the losing side of the price
StopOnLosingSide(c, ref) ==
    LET sl == Or(c.tpsl[1].stop_loss, c.tpsl[1].sl)
    IN  IF c.direction = "LONG" THEN sl < ref ELSE sl > ref

\* C37: place_order sends no request unless the direction is LONG or SHORT,
\* the size positive, a limit price given, the payload present with a target
\* and a stop both given and positive, the stop on the losing side of the entry
\* (the payload's entry price, or the limit price when it gives none), and the
\* risk_reward, if given, at least 1.0.
C37_NoRequestUnlessValid ==
    \A i \in PlaceCalls :
        LET c == last.calls[i]
        IN  c.result = "sent"
               => /\ WellFormedOrder(c)
                  /\ StopOnLosingSide(c, IF c.tpsl[1].entry_price # None
                                         THEN c.tpsl[1].entry_price ELSE c.price)

\* C37 (amended): the stop is tested against the entry only when the payload
\* gives an entry price; with that, the request is sent exactly when every
\* check passes, and the call returns the rejected status otherwise.
C37_RequestIffChecksPass ==
    \A i \in PlaceCalls :
        LET c == last.calls[i]
        IN  /\ c.result \in {"sent", "rejected"}
            /\ c.result = "sent"
                 <=> /\ WellFormedOrder(c)
                     /\ c.tpsl[1].entry_price # None
                           => StopOnLosingSide(c, c.tpsl[1].entry_price)

\* A LONG order with its stop above the payload's entry price was rejected
C37_Witness ==
    \E i \in PlaceCalls :
        LET c == last.calls[i]
        IN  /\ c.direction = "LONG"
            /\ WellFormedOrder(c)
            /\ c.tpsl[1].entry_price # None
            /\ ~StopOnLosingSide(c, c.tpsl[1].entry_price)
            /\ c.result = "rejected"


-----------------------------------------------------------------------------
(* The adapter's symbol field.  WeexExecutionAdapter keeps one mutable       *)
(* self.symbol; set_leverage, place_order and place_tp_sl_order send their   *)
(* request for it, close_all_positions for its argument.  The handlers of    *)
(* the bot run one after the other, in any order, over three symbols.        *)

RouteSymbols == {"btc", "eth", "sol"}

\* The most tier upgrades one tick sends for a symbol
MaxUpgrades == 2

\* self.adapter.symbol = sym
SetSymbol(sym) == [op |-> "set_symbol", concerns |-> sym, param |-> "none"]

\* A call of an adapter method for the trade or position of sym; `param` is the
\* symbol the call passes, "none" if the method takes none
Request(op, sym, param) == [op |-> op, concerns |-> sym, param |-> param]

\* The adapter working through the steps of a handler: [symbol, sent], the
\* field at the end and the requests with the symbol each was sent for
RECURSIVE route(_, _, _)
route(steps, asym, sent) ==
    IF steps = <<>> THEN [symbol |-> asym, sent |-> sent]
    ELSE LET s == Head(steps)
         IN  IF s.op = "set_symbol" THEN route(Tail(steps), s.concerns, sent)
             ELSE route(Tail(steps), asym,
                        Append(sent, [op |-> s.op, concerns |-> s.concerns,
                                      symbol |-> IF s.param # "none" THEN s.param
                                                 ELSE asym]))

\* execute_trade up to the stage it ends at: the field is set first, the
\* leverage request goes out if the leverage changes, then the entry order, the
\* target order, and the close that follows a refused target
EntryStages == {"atr_invalid", "order_failed", "entered", "tp_failed"}

entry_steps(sym, leverage_changes, stage) ==
    <<SetSymbol(sym)>>
    \o (IF leverage_changes THEN <<Request("set_leverage", sym, "none")>> ELSE <<>>)
    \o (IF stage = "atr_invalid" THEN <<>> ELSE <<Request("place_order", sym, "none")>>)
    \o (IF stage \in {"entered", "tp_failed"}
        THEN <<Request("place_tp_sl_order", sym, "none")>> ELSE <<>>)
    \o (IF stage = "tp_failed" THEN <<Request("close_all_positions", sym, sym)>> ELSE <<>>)

\* manage_active_trades without its assignment to the field
manage_steps_unset(sym, n) ==
    [i \in 1..n |-> Request("place_tp_sl_order", sym, "none")]

\* manage_active_trades with n trades to upgrade: the field is set before each
\* stop placement
manage_steps(sym, n) ==
    [i \in 1..(2 * n) |-> IF i % 2 = 1 THEN SetSymbol(sym)
                          ELSE Request("place_tp_sl_order", sym, "none")]

\* check_and_fix_plans over the positions in the order the exchange lists
\* them: the field is set at the top of each symbol's iteration; legs[sym]
\* names the legs found missing
RECURSIVE recon_steps(_, _)
recon_steps(order, legs) ==
    IF order = <<>> THEN <<>>
    ELSE LET sym == Head(order)
         IN  <<SetSymbol(sym)>>
             \o (IF "sl" \in legs[sym]
                 THEN <<Request("place_tp_sl_order", sym, "none")>> ELSE <<>>)
             \o (IF "tp" \in legs[sym]
                 THEN <<Request("place_tp_sl_order", sym, "none")>> ELSE <<>>)
             \o recon_steps(Tail(order), legs)

\* consolidate_hedged_positions for one hedged symbol
consolidate_steps(sym) == <<SetSymbol(sym), Request("close_all_positions", sym, sym)>>

\* The orders in which the exchange may list the positions of some symbols
PositionOrders ==
    {q \in UNION {[1..n -> RouteSymbols] : n \in 0..Cardinality(RouteSymbols)} :
        \A i, j \in DOMAIN q : i # j => q[i] # q[j]}

\* A handler has run its steps through the adapter
Routed(op, sym, steps) ==
    /\ \E R \in {route(steps, adapter_symbol, <<>>)} :
         /\ adapter_symbol' = R.symbol
         /\ last' = Observed(op, sym, "routed", R.sent, TRUE)
    /\ UNCHANGED <<positions, active_trades, current_equity, peak_equity, trading_halted,
                   last_trade_time, last_trade_ts, last_leverage, pc, cur, exVars, envVars,
                   admitted>>

RouteEntry ==
    \E sym \in RouteSymbols, leverage_changes \in BOOLEAN, stage \in EntryStages :
        /\ adapter_symbol \in RouteSymbols
        /\ Routed("execute_trade", sym, entry_steps(sym, leverage_changes, stage))

RouteManage ==
    \E sym \in RouteSymbols, n \in 0..MaxUpgrades :
        /\ adapter_symbol \in RouteSymbols
        /\ Routed("manage_active_trades", sym, manage_steps(sym, n))

RouteRecon ==
    \E order \in PositionOrders, legs \in [RouteSymbols -> SUBSET {"sl", "tp"}] :
        /\ \A sym \in RouteSymbols :
             (\A i \in DOMAIN order : order[i] # sym) => legs[sym] = {}
        /\ Routed("check_and_fix_plans", "all", recon_steps(order, legs))

RouteConsolidate ==
    \E sym \in RouteSymbols :
        /\ adapter_symbol \in RouteSymbols
        /\ Routed("consolidate_hedged_positions", sym, consolidate_steps(sym))

NextRoute == RouteEntry \/ RouteManage \/ RouteRecon \/ RouteConsolidate

SpecRoute == InitCalc /\ [][NextRoute]_vars

RoutedOps ==
    {"execute_trade", "manage_active_trades", "check_and_fix_plans",
     "consolidate_hedged_positions"}

\* C40: every entry order, protective order, leverage and close request of a
\* handler is sent for the symbol of the trade or position it concerns,
\* whatever symbol the handlers before it left in the adapter's field.
C40_RequestsForOwnSymbol ==
    last.op \in RoutedOps
       => \A i \in DOMAIN last.calls : last.calls[i].symbol = last.calls[i].concerns

\* A pass of check_and_fix_plans has placed orders for two symbols in turn:
\* the later one went out for its own symbol although the field held the
\* other symbol before it, and the field is left at the last symbol
C40_Witness ==
    /\ last.op = "check_and_fix_plans"
    /\ \E i, j \in DOMAIN last.calls :
         /\ i < j
         /\ last.calls[i].op = "place_tp_sl_order"
         /\ last.calls[j].op = "place_tp_sl_order"
         /\ last.calls[i].symbol # last.calls[j].symbol
         /\ last.calls[j].symbol = last.calls[j].concerns
         /\ adapter_symbol = last.calls[Len(last.calls)].symbol

=============================================================================
